---- MODULE Spec2Model ----
(***************************************************************************)
(* cargo-tree-tui: the Tree Builder (core/dependency.rs) that turns a      *)
(* cargo-metadata graph snapshot into an arena of Crate and Group nodes,   *)
(* and the navigation state (ops/tree/tui/widget/state.rs) kept over that  *)
(* arena: open set, selection, cached visible list.  The sources hold a    *)
(* second TreeWidgetState, ops/tree/tui/widget_state.rs, whose expand and  *)
(* collapse mark the cache dirty instead of editing it, whose sibling      *)
(* moves stop at a root, and which has search; its other methods are the   *)
(* same text as in widget/state.rs.                                        *)
(*                                                                         *)
(* NodeId(i) is the natural number i, an index into the arena; the arena   *)
(* is the sequence nodes, so NodeId(i) is stored at nodes[i + 1].          *)
(* Option<NodeId>::None is the value None.                                 *)
(***************************************************************************)
EXTENDS Integers, Sequences, FiniteSets, TLC

VARIABLES graph, pc, next_pkg, nodes, roots, node_map, stack,
          open, selected, visible_cache, dirty, viewport_height,
          search_query, search_matches, last_op, last_changed, last_selection,
          viewport, focus_line, total_lines, viewport_op,
          crumbs, area_width, display_crumbs, terminal,
          running, show_help, pending_key, loop, last_key,
          iter_draws, iter_keys

build_vars == <<graph, pc, next_pkg, nodes, roots, node_map, stack>>
\* A Viewport value with the arguments it is computed from, and a
\* breadcrumb trail with the width it is drawn in: the inputs and results of
\* the functions of widget/viewport.rs and widget/breadcrumb.rs.
viewport_vars == <<viewport, focus_line, total_lines, viewport_op>>
crumb_vars == <<crumbs, area_width, display_crumbs>>
widget_vars == <<open, selected, visible_cache, dirty, viewport_height,
                 search_query, search_matches, last_op, last_changed, last_selection>>
\* The fields of TuiState beside the tree and the widget state, and run's
\* place in its loop: before the first test of the while condition
\* ("start"), inside the body before the frame is drawn ("draw") and before
\* the event is read ("read"), at the test after a pass of the body
\* ("test"), returned Ok after ratatui::restore ("done") or returned the
\* Err of draw or read ("failed").  last_key is the last key handled with
\* the flags it met; iter_draws and iter_keys count the frames drawn and the
\* keys handled since the body was entered last.
tui_vars == <<running, show_help, pending_key, loop, last_key,
              iter_draws, iter_keys>>
\* terminal: whether run has initialised the terminal (ratatui::init).
nav_vars == <<widget_vars, viewport_vars, crumb_vars, terminal, tui_vars>>
vars == <<graph, pc, next_pkg, nodes, roots, node_map, stack,
          open, selected, visible_cache, dirty, viewport_height,
          search_query, search_matches, last_op, last_changed, last_selection,
          viewport, focus_line, total_lines, viewport_op,
          crumbs, area_width, display_crumbs, terminal,
          running, show_help, pending_key, loop, last_key,
          iter_draws, iter_keys>>

None == -1

\* TuiState::new: running, help closed, no key pending; run has not
\* entered its loop and no key was handled.
NoKeyHandled ==
  /\ running = TRUE
  /\ show_help = FALSE
  /\ pending_key = "None"
  /\ loop = "start"
  /\ last_key = [code |-> "none", show_help |-> FALSE, pending_key |-> "None"]
  /\ iter_draws = 0
  /\ iter_keys = 0

(***************************************************************************)
(* Bounds of the model.                                                    *)
(***************************************************************************)
\* The arena never grows past this many nodes (the recursion of a cyclic
\* snapshot is cut here; every acyclic snapshot below needs fewer).
MaxNodes == 10
\* Inner heights a frame may report to update_viewport: 0 .. MaxHeight.
MaxHeight == 3
\* Arguments given to open_to_depth: 0 .. MaxDepthArg.
MaxDepthArg == 4
\* Viewport functions: total lines 1 .. MaxLines, area heights
\* 0 .. MaxAreaHeight, reserved lines 0 .. MaxReserved, extra offsets
\* 0 .. MaxExtra.
MaxLines == 8
MaxAreaHeight == 6
MaxReserved == 2
MaxExtra == 2
\* Breadcrumb: area widths 0 .. MaxWidth.
MaxWidth == 41
\* The wide area of tests/render.rs, breadcrumb_when_scrolled.
WideArea == 100

(***************************************************************************)
(* Graph snapshots: cargo_metadata's packages, workspace_members and       *)
(* resolve.nodes[].deps (NodeDep: pkg, dep_kinds).                         *)
(***************************************************************************)
Dep(p, ks) == [pkg |-> p, dep_kinds |-> ks]
NormalDep(p) == Dep(p, <<"normal">>)
DevDep(p) == Dep(p, <<"development">>)
BuildDep(p) == Dep(p, <<"build">>)

\* serde: Normal under root, Dev under a.
GSerde ==
  [packages |-> <<"root", "a", "serde">>,
   members |-> {"root"},
   resolve |-> [p \in {"root", "a", "serde"} |->
                  CASE p = "root" -> <<NormalDep("a"), NormalDep("serde")>>
                    [] p = "a" -> <<DevDep("serde")>>
                    [] OTHER -> <<>>]]

\* root -> {a -> {c}, b}
GBasic ==
  [packages |-> <<"root", "a", "b", "c">>,
   members |-> {"root"},
   resolve |-> [p \in {"root", "a", "b", "c"} |->
                  CASE p = "root" -> <<NormalDep("a"), NormalDep("b")>>
                    [] p = "a" -> <<NormalDep("c")>>
                    [] OTHER -> <<>>]]

\* Every kind, interleaved; an edge whose first kind is unrecognised, an
\* edge with no recognised kind, an edge of two recognised kinds.
GMixed ==
  [packages |-> <<"root", "x", "y", "z", "w", "v", "u">>,
   members |-> {"root"},
   resolve |-> [p \in {"root", "x", "y", "z", "w", "v", "u"} |->
                  CASE p = "root" -> <<DevDep("x"), NormalDep("y"), BuildDep("z"),
                                       Dep("w", <<"unknown", "development">>),
                                       Dep("v", <<"unknown">>),
                                       Dep("u", <<>>)>>
                    [] p = "y" -> <<Dep("x", <<"normal", "development">>)>>
                    [] OTHER -> <<>>]]

\* Diamond: c is reached through a and through b.
GDiamond ==
  [packages |-> <<"root", "a", "b", "c">>,
   members |-> {"root"},
   resolve |-> [p \in {"root", "a", "b", "c"} |->
                  CASE p = "root" -> <<NormalDep("a"), NormalDep("b")>>
                    [] p = "a" -> <<NormalDep("c")>>
                    [] p = "b" -> <<NormalDep("c")>>
                    [] OTHER -> <<>>]]

\* Two workspace members; a chain of depth 4 under the first.
GChain ==
  [packages |-> <<"m1", "a", "m2", "b", "c">>,
   members |-> {"m1", "m2"},
   resolve |-> [p \in {"m1", "a", "m2", "b", "c"} |->
                  CASE p = "m1" -> <<NormalDep("a")>>
                    [] p = "a" -> <<NormalDep("b")>>
                    [] p = "b" -> <<NormalDep("c")>>
                    [] p = "m2" -> <<BuildDep("c")>>
                    [] OTHER -> <<>>]]

\* An edge to a package absent from the package list, and packages (one of
\* them a workspace member) that have no entry in the resolved graph.
GDefensive ==
  [packages |-> <<"root", "lone", "dep">>,
   members |-> {"root", "lone"},
   resolve |-> [p \in {"root"} |->
                  <<NormalDep("ghost"), NormalDep("dep"), DevDep("ghost")>>]]

\* No workspace member at all: the empty tree.
GEmpty ==
  [packages |-> <<"x">>,
   members |-> {},
   resolve |-> [p \in {"x"} |-> <<>>]]

\* a dev-depends on b, b depends on a (cargo permits cycles through
\* dev-dependencies).
GCycle ==
  [packages |-> <<"a", "b">>,
   members |-> {"a"},
   resolve |-> [p \in {"a", "b"} |->
                  CASE p = "a" -> <<DevDep("b")>>
                    [] OTHER -> <<NormalDep("a")>>]]

\* The same dependency listed twice by one package, in one bucket.
GRepeated ==
  [packages |-> <<"root", "a", "c">>,
   members |-> {"root"},
   resolve |-> [p \in {"root", "a", "c"} |->
                  CASE p = "root" -> <<NormalDep("a"), NormalDep("a"),
                                       DevDep("a"), DevDep("a")>>
                    [] p = "a" -> <<NormalDep("c")>>
                    [] OTHER -> <<>>]]

\* A package name with an upper-case letter; b is reached twice.
GNames ==
  [packages |-> <<"root", "Ab", "b">>,
   members |-> {"root"},
   resolve |-> [p \in {"root", "Ab", "b"} |->
                  CASE p = "root" -> <<NormalDep("Ab"), NormalDep("b")>>
                    [] p = "Ab" -> <<NormalDep("b")>>
                    [] OTHER -> <<>>]]

\* root -> {a -> {b -> {c}}, d}: c lies below an ancestor that has a later
\* sibling (a) and one that has none (b).
GDeep ==
  [packages |-> <<"root", "a", "b", "c", "d">>,
   members |-> {"root"},
   resolve |-> [p \in {"root", "a", "b", "c", "d"} |->
                  CASE p = "root" -> <<NormalDep("a"), NormalDep("d")>>
                    [] p = "a" -> <<NormalDep("b")>>
                    [] p = "b" -> <<NormalDep("c")>>
                    [] OTHER -> <<>>]]

\* Snapshots in which every package lists a dependency at most once, as the
\* provider delivers them (one NodeDep per dependency package).
Snapshots ==
  {GSerde, GBasic, GMixed, GDiamond, GChain, GDefensive, GEmpty, GCycle, GNames,
   GDeep}
\* The provider fails: cmd.exec() returns Err, there is no metadata.
GExecFails == [error |-> "cargo metadata"]

\* The provider's result carries no resolved dependency graph
\* (metadata.resolve is None, as with --no-deps).
GNoResolve ==
  [packages |-> <<"root", "a">>,
   members |-> {"root"}]

Failures == {GExecFails, GNoResolve}

\* Every snapshot the builder's input types admit.
AnySnapshots == Snapshots \cup {GRepeated}

PackageIds(g) == {g.packages[i] : i \in 1..Len(g.packages)}

(***************************************************************************)
(* core/dependency.rs                                                      *)
(***************************************************************************)
\* impl TryFrom<DependencyKind> for DependencyType
TryFromKind(k) ==
  CASE k = "normal" -> "Normal"
    [] k = "development" -> "Dev"
    [] k = "build" -> "Build"
    [] OTHER -> "Err"

\* The type of the last recognised kind of the list.
RECURSIVE DepType_last(_)
DepType_last(kinds) ==
  IF kinds = <<>> THEN "None"
  ELSE IF DepType_last(Tail(kinds)) # "None" THEN DepType_last(Tail(kinds))
  ELSE IF TryFromKind(Head(kinds)) # "Err" THEN TryFromKind(Head(kinds))
  ELSE "None"

\* dep.dep_kinds.iter().find_map(|kind| DependencyType::try_from(kind.kind).ok())
RECURSIVE DepType(_)
DepType(kinds) ==
  IF kinds = <<>> THEN "None"
  ELSE IF TryFromKind(Head(kinds)) # "Err" THEN TryFromKind(Head(kinds))
  ELSE DepType(Tail(kinds))

\* The bucket of one dependency type: the packages of the edges classified
\* as that type, in edge order.
RECURSIVE Bucket(_, _)
Bucket(deps, type) ==
  IF deps = <<>> THEN <<>>
  ELSE IF DepType(Head(deps).dep_kinds) = type
       THEN <<Head(deps).pkg>> \o Bucket(Tail(deps), type)
       ELSE Bucket(Tail(deps), type)

\* DependencyType::label
Label(kind) ==
  CASE kind = "Normal" -> "[dependencies]"
    [] kind = "Dev" -> "[dev-dependencies]"
    [] kind = "Build" -> "[build-dependencies]"

\* DependencyNode::Crate(Dependency { name, parent, children: Vec::new() })
NewCrate(pkg, parent) ==
  [tag |-> "Crate", name |-> pkg, kind |-> "None", parent |-> parent, children |-> <<>>]

\* NewGroup with the parent link left unset.
NewGroup_orphan(kind, parent) ==
  [tag |-> "Group", name |-> Label(kind), kind |-> kind, parent |-> None, children |-> <<>>]

\* DependencyNode::Group(DependencyGroup { kind, parent, children: Vec::new() })
NewGroup(kind, parent) ==
  [tag |-> "Group", name |-> Label(kind), kind |-> kind, parent |-> parent, children |-> <<>>]

\* The lookup with the parent left out of the key.
MapHits_any_parent(pkg, parent) == {e \in node_map : e.pkg = pkg}

\* node_map.get(&(package_id, parent))
MapHits(pkg, parent) == {e \in node_map : e.pkg = pkg /\ e.parent = parent}
\* MapGet with the lookup never finding the key.
MapGet_miss(pkg, parent) == None

MapGet(pkg, parent) ==
  IF MapHits(pkg, parent) = {} THEN None
  ELSE (CHOOSE e \in MapHits(pkg, parent) : TRUE).id

\* node_map.insert(key, node_id)
MapInsert(pkg, parent, id) ==
  {e \in node_map : ~(e.pkg = pkg /\ e.parent = parent)}
    \cup {[pkg |-> pkg, parent |-> parent, id |-> id]}

Top == stack[Len(stack)]
Pop(stk) == SubSeq(stk, 1, Len(stk) - 1)
ReplaceTop(stk, f) == [stk EXCEPT ![Len(stk)] = f]

\* The arguments of the call of build_dependency_node that is about to be
\* made: by the root loop of load, or by the frame on top of the stack for
\* the next package of its current bucket.
CallEnabled ==
  /\ pc = "build"
  /\ IF stack = <<>>
     THEN /\ next_pkg <= Len(graph.packages)
          /\ graph.packages[next_pkg] \in graph.members
     ELSE Top.todo # <<>>
CallPkg == IF stack = <<>> THEN graph.packages[next_pkg] ELSE Head(Top.todo)
CallParent ==
  IF stack = <<>> THEN None
  ELSE IF Top.group # None THEN Top.group ELSE Top.node_id

\* Pushed with the id put at the front of the list.
Pushed_front(list, id) == <<id>> \o list

\* What the caller does with Some(child): roots.push / children.push.
Pushed(list, id) == Append(list, id)

\* The caller's frame with every result pushed, None too.
Resume_always(f, result) ==
  LET g == [f EXCEPT !.todo = Tail(@)]
  IN IF g.group # None
     THEN [g EXCEPT !.gchildren = Pushed(@, result)]
     ELSE [g EXCEPT !.children = Pushed(@, result)]

\* The caller's frame after the call returned `result` (None: no child).
Resume(f, result) ==
  LET g == [f EXCEPT !.todo = Tail(@)]
  IN IF result = None THEN g
     ELSE IF g.group # None
          THEN [g EXCEPT !.gchildren = Pushed(@, result)]
          ELSE [g EXCEPT !.children = Pushed(@, result)]

\* The frame of a call that goes on to classify the edges of its package.
NewFrame(pkg, id) ==
  LET deps == graph.resolve[pkg]
  IN [pkg |-> pkg, node_id |-> id,
      normal |-> Bucket(deps, "Normal"),
      dev |-> Bucket(deps, "Dev"),
      build |-> Bucket(deps, "Build"),
      phase |-> "Normal", todo |-> Bucket(deps, "Normal"),
      children |-> <<>>, group |-> None, gchildren |-> <<>>]

\* cmd.exec() is Ok(metadata)
exec_ok(g) == "packages" \in DOMAIN g

\* metadata.resolve is Some(resolve)
resolve_some(g) == "resolve" \in DOMAIN g

\* Only the failure of cmd.exec() ends load.
load_err_exec(g) == ~exec_ok(g)

\* load returns Err: cmd.exec().context(..)? or metadata.resolve
\* .as_ref().context(..)? leaves the function.
load_err(g) == ~exec_ok(g) \/ ~resolve_some(g)

\* load: the provider was called, its result holds a resolved graph; the
\* lookup maps and the empty nodes, roots and node_map are set up.
ReadMetadata ==
  /\ pc = "load"
  /\ ~load_err(graph)
  /\ pc' = "build"
  /\ UNCHANGED <<graph, next_pkg, nodes, roots, node_map, stack>>
  /\ UNCHANGED nav_vars

\* load returns the error, and run returns it (`?`) before
\* TuiState::new and ratatui::init.
LoadFails ==
  /\ pc = "load"
  /\ load_err(graph)
  /\ pc' = "error"
  /\ UNCHANGED <<graph, next_pkg, nodes, roots, node_map, stack>>
  /\ UNCHANGED nav_vars

\* load: a package that is not a workspace member is filtered out.
SkipNonMember ==
  /\ pc = "build" /\ stack = <<>>
  /\ next_pkg <= Len(graph.packages)
  /\ graph.packages[next_pkg] \notin graph.members
  /\ next_pkg' = next_pkg + 1
  /\ UNCHANGED <<graph, pc, nodes, roots, node_map, stack>>
  /\ UNCHANGED nav_vars

\* build_dependency_node: the key is in node_map, the existing id is returned.
ReuseNode ==
  /\ CallEnabled
  /\ MapGet(CallPkg, CallParent) # None
  /\ IF stack = <<>>
     THEN /\ roots' = Pushed(roots, MapGet(CallPkg, CallParent))
          /\ next_pkg' = next_pkg + 1
          /\ UNCHANGED stack
     ELSE /\ stack' = ReplaceTop(stack, Resume(Top, MapGet(CallPkg, CallParent)))
          /\ UNCHANGED <<roots, next_pkg>>
  /\ UNCHANGED <<graph, pc, nodes, node_map>>
  /\ UNCHANGED nav_vars

\* build_dependency_node: package_map.get(package_id)? returns None.
SkipMissingPackage ==
  /\ CallEnabled
  /\ MapGet(CallPkg, CallParent) = None
  /\ CallPkg \notin PackageIds(graph)
  /\ IF stack = <<>>
     THEN /\ next_pkg' = next_pkg + 1
          /\ UNCHANGED stack
     ELSE /\ stack' = ReplaceTop(stack, Resume(Top, None))
          /\ UNCHANGED next_pkg
  /\ UNCHANGED <<graph, pc, nodes, roots, node_map>>
  /\ UNCHANGED nav_vars

\* build_dependency_node: the node is created, the package has no entry in
\* resolve_nodes, the childless node is returned.
CreateLeaf ==
  /\ CallEnabled
  /\ MapGet(CallPkg, CallParent) = None
  /\ CallPkg \in PackageIds(graph)
  /\ CallPkg \notin DOMAIN graph.resolve
  /\ Len(nodes) < MaxNodes
  /\ nodes' = Append(nodes, NewCrate(CallPkg, CallParent))
  /\ node_map' = MapInsert(CallPkg, CallParent, Len(nodes))
  /\ IF stack = <<>>
     THEN /\ roots' = Pushed(roots, Len(nodes))
          /\ next_pkg' = next_pkg + 1
          /\ UNCHANGED stack
     ELSE /\ stack' = ReplaceTop(stack, Resume(Top, Len(nodes)))
          /\ UNCHANGED <<roots, next_pkg>>
  /\ UNCHANGED <<graph, pc>>
  /\ UNCHANGED nav_vars

\* build_dependency_node: the node is created and its edges are classified
\* into the three buckets; the Normal bucket is visited first.
EnterCrate ==
  /\ CallEnabled
  /\ MapGet(CallPkg, CallParent) = None
  /\ CallPkg \in PackageIds(graph)
  /\ CallPkg \in DOMAIN graph.resolve
  /\ Len(nodes) < MaxNodes
  /\ nodes' = Append(nodes, NewCrate(CallPkg, CallParent))
  /\ node_map' = MapInsert(CallPkg, CallParent, Len(nodes))
  /\ stack' = Append(stack, NewFrame(CallPkg, Len(nodes)))
  /\ UNCHANGED <<graph, pc, next_pkg, roots>>
  /\ UNCHANGED nav_vars

\* The dependency type whose build_group call follows the current phase.
NextPhase(phase) == IF phase = "Normal" THEN "Dev" ELSE "Build"
\* PhaseBucket with the Dev bucket handed to both build_group calls.
PhaseBucket_dev(f, kind) == f.dev

PhaseBucket(f, kind) == IF kind = "Dev" THEN f.dev ELSE f.build

AtGroupCall ==
  /\ pc = "build" /\ stack # <<>>
  /\ Top.todo = <<>> /\ Top.group = None
  /\ Top.phase \in {"Normal", "Dev"}

\* build_group: deps.is_empty(), nothing is created.
SkipEmptyGroup ==
  /\ AtGroupCall
  /\ PhaseBucket(Top, NextPhase(Top.phase)) = <<>>
  /\ stack' = ReplaceTop(stack, [Top EXCEPT !.phase = NextPhase(@)])
  /\ UNCHANGED <<graph, pc, next_pkg, nodes, roots, node_map>>
  /\ UNCHANGED nav_vars

\* build_group: the Group node is created and pushed onto the crate's
\* children; its bucket is visited with the Group as parent.
OpenGroup ==
  /\ AtGroupCall
  /\ PhaseBucket(Top, NextPhase(Top.phase)) # <<>>
  /\ Len(nodes) < MaxNodes
  /\ nodes' = Append(nodes, NewGroup(NextPhase(Top.phase), Top.node_id))
  /\ stack' = ReplaceTop(stack,
       [Top EXCEPT !.phase = NextPhase(@),
                   !.todo = PhaseBucket(Top, NextPhase(Top.phase)),
                   !.children = Pushed(@, Len(nodes)),
                   !.group = Len(nodes),
                   !.gchildren = <<>>])
  /\ UNCHANGED <<graph, pc, next_pkg, roots, node_map>>
  /\ UNCHANGED nav_vars

\* build_group: group.children = children.
CloseGroup ==
  /\ pc = "build" /\ stack # <<>>
  /\ Top.todo = <<>> /\ Top.group # None
  /\ nodes' = [nodes EXCEPT ![Top.group + 1].children = Top.gchildren]
  /\ stack' = ReplaceTop(stack, [Top EXCEPT !.group = None, !.gchildren = <<>>])
  /\ UNCHANGED <<graph, pc, next_pkg, roots, node_map>>
  /\ UNCHANGED nav_vars

\* build_dependency_node: dependency.children = children; Some(node_id).
ReturnCrate ==
  /\ pc = "build" /\ stack # <<>>
  /\ Top.todo = <<>> /\ Top.group = None /\ Top.phase = "Build"
  /\ nodes' = [nodes EXCEPT ![Top.node_id + 1].children = Top.children]
  /\ IF Len(stack) = 1
     THEN /\ roots' = Pushed(roots, Top.node_id)
          /\ next_pkg' = next_pkg + 1
          /\ stack' = <<>>
     ELSE /\ stack' = ReplaceTop(Pop(stack), Resume(stack[Len(stack) - 1], Top.node_id))
          /\ UNCHANGED <<roots, next_pkg>>
  /\ UNCHANGED <<graph, pc, node_map>>
  /\ UNCHANGED nav_vars

\* load: the loop over the packages is over, Ok(DependencyTree { nodes, roots }).
FinishLoad ==
  /\ pc = "build" /\ stack = <<>>
  /\ next_pkg > Len(graph.packages)
  /\ pc' = "loaded"
  /\ UNCHANGED <<graph, next_pkg, nodes, roots, node_map, stack>>
  /\ UNCHANGED nav_vars

BuildNext ==
  \/ ReadMetadata
  \/ LoadFails
  \/ SkipNonMember
  \/ ReuseNode
  \/ SkipMissingPackage
  \/ CreateLeaf
  \/ EnterCrate
  \/ SkipEmptyGroup
  \/ OpenGroup
  \/ CloseGroup
  \/ ReturnCrate
  \/ FinishLoad

(***************************************************************************)
(* The arena as the navigation state reads it.                             *)
(***************************************************************************)
NodeIds == 0..(Len(nodes) - 1)
\* DependencyTree::node: nodes.get(id.0)
HasNode(id) == id \in NodeIds
Node(id) == nodes[id + 1]
Children(id) == IF HasNode(id) THEN Node(id).children ELSE <<>>
Parent(id) == IF HasNode(id) THEN Node(id).parent ELSE None

Ids(seq) == {seq[i] : i \in 1..Len(seq)}
NoRepeat(seq) == \A i, j \in 1..Len(seq) : i # j => seq[i] # seq[j]

\* Parent and children links agree, and a node is named by roots exactly
\* when it has no parent.
LinksSymmetric ==
  /\ \A n \in NodeIds :
       /\ Parent(n) # None => HasNode(Parent(n)) /\ n \in Ids(Children(Parent(n)))
       /\ \A c \in Ids(Children(n)) : HasNode(c) /\ Parent(c) = n
       /\ Parent(n) = None <=> n \in Ids(roots)
  /\ \A r \in Ids(roots) : HasNode(r)

\* A forest: symmetric links, and no list names a node twice.
WellFormed ==
  /\ LinksSymmetric
  /\ NoRepeat(roots)
  /\ \A n \in NodeIds : NoRepeat(Children(n))

\* The tree widget runs over a loaded, well-formed tree.
Loaded == pc = "loaded" /\ WellFormed

(***************************************************************************)
(* ops/tree/tui/widget/state.rs: TreeWidgetState.  The methods take        *)
(* &mut self; here they are operators from the state record W to the       *)
(* state record after the call.                                            *)
(***************************************************************************)
Self ==
  [open |-> open, selected |-> selected, visible_cache |-> visible_cache,
   dirty |-> dirty, viewport_height |-> viewport_height,
   search_query |-> search_query, search_matches |-> search_matches]

VisibleNode(id, depth) == [id |-> id, depth |-> depth]

\* collect_visible: the node, then, if it is open, its children's subtrees.
RECURSIVE collect_visible(_, _, _)
RECURSIVE collect_children(_, _, _)
\* collect_visible with the open check left out.
collect_visible_all(op, id, depth) ==
  <<[id |-> id, depth |-> depth]>> \o collect_children(op, Children(id), depth + 1)

collect_visible(op, id, depth) ==
  <<VisibleNode(id, depth)>> \o
    (IF id \notin op THEN <<>>
     ELSE collect_children(op, Children(id), depth + 1))
collect_children(op, list, depth) ==
  IF list = <<>> THEN <<>>
  ELSE collect_visible(op, Head(list), depth) \o collect_children(op, Tail(list), depth)

\* rebuild_visible: the roots' subtrees at depth 0.
rebuild_visible(op) == collect_children(op, roots, 0)

\* visible_nodes: rebuilds the cache when dirty.
visible_nodes(W) ==
  IF W.dirty
  THEN [W EXCEPT !.visible_cache = rebuild_visible(W.open), !.dirty = FALSE]
  ELSE W

\* selected_index: visible.iter().position(|node| node.id == target),
\* 0-based, None when absent.
selected_index(visible, target) ==
  IF \E i \in 1..Len(visible) : visible[i].id = target
  THEN (CHOOSE i \in 1..Len(visible) :
          /\ visible[i].id = target
          /\ \A j \in 1..(i - 1) : visible[j].id # target) - 1
  ELSE None

\* ensure_selection keeping any selection that is set, visible or not.
ensure_selection_keep(W) ==
  LET V == visible_nodes(W)
  IN IF V.visible_cache = <<>> THEN [V EXCEPT !.selected = None]
     ELSE IF V.selected # None THEN V
          ELSE [V EXCEPT !.selected = V.visible_cache[1].id]

\* ensure_selection: the state after the call.
ensure_selection(W) ==
  LET V == visible_nodes(W)
  IN IF V.visible_cache = <<>> THEN [V EXCEPT !.selected = None]
     ELSE IF V.selected # None
             /\ \E i \in 1..Len(V.visible_cache) : V.visible_cache[i].id = V.selected
          THEN V
          ELSE [V EXCEPT !.selected = V.visible_cache[1].id]

\* ensure_selection: its return value.
ensure_selection_ok(W) == visible_nodes(W).visible_cache # <<>>

\* select_next
select_next(W) ==
  LET E == ensure_selection(W)
      idx == selected_index(E.visible_cache, E.selected)
  IN IF ~ensure_selection_ok(W) \/ E.selected = None \/ idx = None THEN E
     ELSE IF idx + 1 < Len(E.visible_cache)
          THEN [E EXCEPT !.selected = E.visible_cache[idx + 2].id]
          ELSE E

\* select_previous going back to the first visible node.
select_previous_first(W) ==
  LET E == ensure_selection(W)
      idx == selected_index(E.visible_cache, E.selected)
  IN IF ~ensure_selection_ok(W) \/ E.selected = None \/ idx = None THEN E
     ELSE IF idx > 0
          THEN [E EXCEPT !.selected = E.visible_cache[1].id]
          ELSE E

\* select_previous
select_previous(W) ==
  LET E == ensure_selection(W)
      idx == selected_index(E.visible_cache, E.selected)
  IN IF ~ensure_selection_ok(W) \/ E.selected = None \/ idx = None THEN E
     ELSE IF idx > 0
          THEN [E EXCEPT !.selected = E.visible_cache[idx].id]
          ELSE E

\* insert_descendants splicing in the children only, not what is open
\* below them.
insert_descendants_children(W, id) ==
  LET start == selected_index(W.visible_cache, id)
      depth == W.visible_cache[start + 1].depth
      subtree == [i \in 1..Len(Children(id)) |-> VisibleNode(Children(id)[i], depth + 1)]
  IN IF start = None THEN W
     ELSE [W EXCEPT !.visible_cache =
             SubSeq(W.visible_cache, 1, start + 1)
               \o subtree
               \o SubSeq(W.visible_cache, start + 2, Len(W.visible_cache))]

\* insert_descendants: splices the visible descendants of id after it.
insert_descendants(W, id) ==
  LET start == selected_index(W.visible_cache, id)
      depth == W.visible_cache[start + 1].depth
      subtree == collect_visible(W.open, id, depth)
  IN IF start = None THEN W
     ELSE IF Len(subtree) <= 1 THEN W
     ELSE [W EXCEPT !.visible_cache =
             SubSeq(W.visible_cache, 1, start + 1)
               \o Tail(subtree)
               \o SubSeq(W.visible_cache, start + 2, Len(W.visible_cache))]

\* prune_descendants stopping only at an entry strictly shallower than id.
prune_descendants_strict(W, id) ==
  LET cache == W.visible_cache
      start == selected_index(cache, id)
      depth == cache[start + 1].depth
      first_descendant == start + 1
      stops == {k \in first_descendant..(Len(cache) - 1) : cache[k + 1].depth < depth}
      end == IF stops = {} THEN Len(cache)
             ELSE CHOOSE k \in stops : \A m \in stops : k <= m
  IN IF start = None THEN W
     ELSE IF first_descendant >= Len(cache) THEN W
     ELSE [W EXCEPT !.visible_cache =
             SubSeq(cache, 1, first_descendant) \o SubSeq(cache, end + 1, Len(cache))]

\* prune_descendants: drains the run of deeper entries that follows id.
prune_descendants(W, id) ==
  LET cache == W.visible_cache
      start == selected_index(cache, id)
      depth == cache[start + 1].depth
      first_descendant == start + 1
      \* 0-based index of the first later entry that is not deeper
      stops == {k \in first_descendant..(Len(cache) - 1) : cache[k + 1].depth <= depth}
      end == IF stops = {} THEN Len(cache)
             ELSE CHOOSE k \in stops : \A m \in stops : k <= m
  IN IF start = None THEN W
     ELSE IF first_descendant >= Len(cache) THEN W
     ELSE [W EXCEPT !.visible_cache =
             SubSeq(cache, 1, first_descendant) \o SubSeq(cache, end + 1, Len(cache))]

\* expand opening the node and moving into its first child in one call.
expand_into(W) ==
  LET E == ensure_selection(W)
      sel == E.selected
  IN IF ~ensure_selection_ok(W) \/ sel = None THEN E
     ELSE IF ~HasNode(sel) THEN E
     ELSE IF Children(sel) = <<>> THEN E
     ELSE IF sel \notin E.open
          THEN [insert_descendants([E EXCEPT !.open = E.open \cup {sel}], sel)
                  EXCEPT !.dirty = FALSE, !.selected = Children(sel)[1]]
          ELSE [E EXCEPT !.selected = Children(sel)[1]]

\* expand
expand(W) ==
  LET E == ensure_selection(W)
      sel == E.selected
  IN IF ~ensure_selection_ok(W) \/ sel = None THEN E
     ELSE IF ~HasNode(sel) THEN E
     ELSE IF Children(sel) = <<>> THEN E
     ELSE IF sel \notin E.open
          THEN [insert_descendants([E EXCEPT !.open = E.open \cup {sel}], sel)
                  EXCEPT !.dirty = FALSE]
          ELSE [E EXCEPT !.selected = Children(sel)[1]]

\* collapse closing every open node, not the selected one alone.
collapse_every(W) ==
  LET E == ensure_selection(W)
      sel == E.selected
  IN IF ~ensure_selection_ok(W) \/ sel = None THEN E
     ELSE IF ~HasNode(sel) THEN E
     ELSE IF Children(sel) # <<>> /\ sel \in E.open
          THEN [prune_descendants([E EXCEPT !.open = {}], sel)
                  EXCEPT !.dirty = FALSE]
          ELSE IF Parent(sel) # None
               THEN [E EXCEPT !.selected = Parent(sel)]
               ELSE E

\* collapse that closes an open node but never moves to the parent.
collapse_stay(W) ==
  LET E == ensure_selection(W)
      sel == E.selected
  IN IF ~ensure_selection_ok(W) \/ sel = None THEN E
     ELSE IF ~HasNode(sel) THEN E
     ELSE IF Children(sel) # <<>> /\ sel \in E.open
          THEN [prune_descendants([E EXCEPT !.open = E.open \ {sel}], sel)
                  EXCEPT !.dirty = FALSE]
          ELSE E

\* collapse
collapse(W) ==
  LET E == ensure_selection(W)
      sel == E.selected
  IN IF ~ensure_selection_ok(W) \/ sel = None THEN E
     ELSE IF ~HasNode(sel) THEN E
     ELSE IF Children(sel) # <<>> /\ sel \in E.open
          THEN [prune_descendants([E EXCEPT !.open = E.open \ {sel}], sel)
                  EXCEPT !.dirty = FALSE]
          ELSE IF Parent(sel) # None
               THEN [E EXCEPT !.selected = Parent(sel)]
               ELSE E

\* select_parent
select_parent(W) ==
  IF W.selected = None THEN W
  ELSE IF HasNode(W.selected) /\ Parent(W.selected) # None
       THEN [W EXCEPT !.selected = Parent(W.selected)]
       ELSE W

\* The slice in which the siblings of the selected node are looked up.
Siblings(id) == IF Parent(id) # None THEN Children(Parent(id)) ELSE roots

\* siblings.iter().position(|&id| id == selected), 0-based
Position(list, id) ==
  IF id \in Ids(list)
  THEN (CHOOSE i \in 1..Len(list) :
          list[i] = id /\ \A j \in 1..(i - 1) : list[j] # id) - 1
  ELSE None

\* select_next_sibling
select_next_sibling(W) ==
  LET sel == W.selected
      pos == Position(Siblings(sel), sel)
  IN IF sel = None THEN W
     ELSE IF ~HasNode(sel) THEN W
     ELSE IF Parent(sel) # None /\ ~HasNode(Parent(sel)) THEN W
     ELSE IF pos = None THEN W
     ELSE IF pos + 1 < Len(Siblings(sel))
          THEN [W EXCEPT !.selected = Siblings(sel)[pos + 2]]
          ELSE W

\* select_previous_sibling
select_previous_sibling(W) ==
  LET sel == W.selected
      pos == Position(Siblings(sel), sel)
  IN IF sel = None THEN W
     ELSE IF ~HasNode(sel) THEN W
     ELSE IF Parent(sel) # None /\ ~HasNode(Parent(sel)) THEN W
     ELSE IF pos = None THEN W
     ELSE IF pos > 0
          THEN [W EXCEPT !.selected = Siblings(sel)[pos]]
          ELSE W

\* move_by
move_by(W, delta) ==
  LET E == ensure_selection(W)
      idx == selected_index(E.visible_cache, E.selected)
      len == Len(E.visible_cache)
      moved == idx + delta
      next_index == IF moved < 0 THEN 0 ELSE IF moved >= len THEN len - 1 ELSE moved
  IN IF ~ensure_selection_ok(W) \/ E.selected = None \/ idx = None THEN E
     ELSE IF len = 0 THEN E
     ELSE [E EXCEPT !.selected = E.visible_cache[next_index + 1].id]

\* The step as the whole viewport height.
page_step_height(W) == W.viewport_height

\* self.viewport.height.saturating_sub(1).max(1)
page_step(W) ==
  LET less == IF W.viewport_height >= 1 THEN W.viewport_height - 1 ELSE 0
  IN IF less >= 1 THEN less ELSE 1

\* page_up
page_up(W) == move_by(W, 0 - page_step(W))

\* page_down
page_down(W) == move_by(W, page_step(W))

\* open_node: the ids it inserts into open.
RECURSIVE open_node(_, _, _)
RECURSIVE open_nodes(_, _, _)
\* open_node going one level deeper than asked.
open_node_deep(id, depth, max_depth) ==
  IF depth > max_depth THEN {}
  ELSE IF ~HasNode(id) THEN {}
  ELSE IF Children(id) = <<>> THEN {}
  ELSE {id} \cup open_nodes(Children(id), depth + 1, max_depth)

open_node(id, depth, max_depth) ==
  IF depth >= max_depth THEN {}
  ELSE IF ~HasNode(id) THEN {}
  ELSE IF Children(id) = <<>> THEN {}
  ELSE {id} \cup open_nodes(Children(id), depth + 1, max_depth)
open_nodes(list, depth, max_depth) ==
  IF list = <<>> THEN {}
  ELSE open_node(Head(list), depth, max_depth) \cup open_nodes(Tail(list), depth, max_depth)

\* open_to_depth without the closing ensure_selection.
open_to_depth_unchecked(W, max_depth) ==
  IF max_depth = 0 THEN W
  ELSE visible_nodes([W EXCEPT !.open = open_nodes(roots, 1, max_depth),
                               !.dirty = TRUE])

\* open_to_depth
open_to_depth(W, max_depth) ==
  IF max_depth = 0 THEN W
  ELSE ensure_selection([W EXCEPT !.open = open_nodes(roots, 1, max_depth),
                                  !.dirty = TRUE])

\* expand_all without marking the cache dirty.
expand_all_stale(W) ==
  ensure_selection([W EXCEPT !.open = {id \in NodeIds : Children(id) # <<>>}])

\* expand_all marking every node open, the leaves too.
expand_all_leaves(W) ==
  ensure_selection([W EXCEPT !.open = NodeIds, !.dirty = TRUE])

\* expand_all
expand_all(W) ==
  ensure_selection([W EXCEPT !.open = {id \in NodeIds : Children(id) # <<>>},
                             !.dirty = TRUE])

\* collapse_all (called by TuiState::handle_key_event; its body is not in
\* the sources): open becomes empty and the selection is re-validated.
collapse_all(W) ==
  ensure_selection([W EXCEPT !.open = {}, !.dirty = TRUE])

(***************************************************************************)
(* The viewport of a frame: ops/tree/tui/widget.rs (Viewport::new with the *)
(* selected line) and ops/tree/tui/widget/viewport.rs (Viewport::new of    *)
(* the area, center_on, clamp_offset).  A Viewport is the record of its    *)
(* height, offset and max_offset; the Rects are left out.                  *)
(***************************************************************************)
\* usize::saturating_sub
saturating_sub(a, b) == IF a >= b THEN a - b ELSE 0
\* usize::div_ceil
div_ceil(a, b) == (a + b - 1) \div b
\* usize::min
min(a, b) == IF a <= b THEN a ELSE b

\* The centre line as height / 2, rounded down.
Viewport_new_floor(height, selected_line, lines) ==
  LET offset == IF height = 0 THEN 0
                ELSE saturating_sub(selected_line, height \div 2)
      max_offset == IF height = 0 THEN 0 ELSE saturating_sub(lines, height)
  IN [height |-> height, offset |-> min(offset, max_offset),
      max_offset |-> max_offset]

\* widget.rs, Viewport::new(area, block, selected_line, total_lines); height
\* is inner.height.
Viewport_new(height, selected_line, lines) ==
  LET offset == IF height = 0 THEN 0
                ELSE saturating_sub(selected_line, div_ceil(height, 2))
      max_offset == IF height = 0 THEN 0 ELSE saturating_sub(lines, height)
  IN [height |-> height, offset |-> min(offset, max_offset),
      max_offset |-> max_offset]

\* Viewport::default()
Viewport_default == [height |-> 0, offset |-> 0, max_offset |-> 0]

\* widget/viewport.rs, Viewport::new(area, block)
viewport_new(height) == [height |-> height, offset |-> 0, max_offset |-> 0]

\* Viewport::center_on(self, focus_line, total_lines, reserved_lines)
center_on(V, focus, lines, reserved_lines) ==
  LET height == IF V.height > 0 /\ reserved_lines > 0
                THEN saturating_sub(V.height, reserved_lines)
                ELSE V.height
  IN IF height > 0
     THEN [height |-> height,
           offset |-> saturating_sub(focus, div_ceil(height, 2)),
           max_offset |-> saturating_sub(lines, height)]
     ELSE [V EXCEPT !.height = height]

\* Viewport::clamp_offset(&mut self, total_lines, extra_offset)
clamp_offset(V, lines, extra_offset) ==
  IF V.offset >= V.max_offset
  THEN [V EXCEPT !.offset =
          min(V.offset, saturating_sub(lines, V.height) + extra_offset)]
  ELSE V

\* RenderContext::render, as far as it changes the state: selected_position
\* validates the selection (no frame when there is none), update_viewport
\* stores the viewport of the area.
render(W, height) ==
  LET E == ensure_selection(W)
  IN IF ~ensure_selection_ok(W) THEN E
     ELSE [E EXCEPT !.viewport_height = height]

\* RenderContext::render, the viewport of the frame it returns: none (the
\* default) without a selection, Viewport::new for the selected line and
\* the number of visible nodes otherwise.
render_viewport(W, height) ==
  LET E == ensure_selection(W)
      selected_idx == selected_index(E.visible_cache, E.selected)
  IN IF ~ensure_selection_ok(W) \/ selected_idx = None THEN Viewport_default
     ELSE LET vp == Viewport_new(height, selected_idx + 1, Len(E.visible_cache))
          IN IF vp.height = 0 THEN Viewport_default ELSE vp

(***************************************************************************)
(* ops/tree/tui/widget_state.rs: the methods whose text differs from       *)
(* widget/state.rs, and search.  A String is the sequence of its           *)
(* characters; an Option<String> is the empty sequence (None) or the       *)
(* one-element sequence that holds the string (Some).                      *)
(***************************************************************************)
\* The characters of a name: the package names of the snapshots and the
\* Group labels.
Chars(name) ==
  CASE name = "root" ->
         <<"r", "o", "o", "t">>
    [] name = "a" ->
         <<"a">>
    [] name = "b" ->
         <<"b">>
    [] name = "c" ->
         <<"c">>
    [] name = "serde" ->
         <<"s", "e", "r", "d", "e">>
    [] name = "x" ->
         <<"x">>
    [] name = "y" ->
         <<"y">>
    [] name = "z" ->
         <<"z">>
    [] name = "w" ->
         <<"w">>
    [] name = "v" ->
         <<"v">>
    [] name = "u" ->
         <<"u">>
    [] name = "m1" ->
         <<"m", "1">>
    [] name = "m2" ->
         <<"m", "2">>
    [] name = "lone" ->
         <<"l", "o", "n", "e">>
    [] name = "dep" ->
         <<"d", "e", "p">>
    [] name = "Ab" ->
         <<"A", "b">>
    [] name = "d" ->
         <<"d">>
    [] name = "e" ->
         <<"e">>
    [] name = "f" ->
         <<"f">>
    [] name = "g" ->
         <<"g">>
    [] name = "[dependencies]" ->
         <<"[", "d", "e", "p", "e", "n", "d", "e", "n", "c", "i", "e", "s", "]">>
    [] name = "[dev-dependencies]" ->
         <<"[", "d", "e", "v", "-", "d", "e", "p", "e", "n", "d", "e", "n", "c", "i", "e", "s", "]">>
    [] name = "[build-dependencies]" ->
         <<"[", "b", "u", "i", "l", "d", "-", "d", "e", "p", "e", "n", "d", "e", "n", "c", "i", "e", "s", "]">>

\* DependencyNode::display_name: the crate's name, or the Group's label
\* (search reads it as node.name).
display_name(id) == Chars(Node(id).name)

UpperCase ==
  <<"A", "B", "C", "D", "E", "F", "G", "H", "I", "J", "K", "L", "M",
    "N", "O", "P", "Q", "R", "S", "T", "U", "V", "W", "X", "Y", "Z">>
LowerCase ==
  <<"a", "b", "c", "d", "e", "f", "g", "h", "i", "j", "k", "l", "m",
    "n", "o", "p", "q", "r", "s", "t", "u", "v", "w", "x", "y", "z">>
WhiteSpace == {" ", "\t", "\n"}

\* str::to_ascii_lowercase as the identity.
to_ascii_lowercase_id(str) == str

\* str::to_ascii_lowercase: 'A'..'Z' become 'a'..'z', the rest stays.
to_ascii_lowercase(str) ==
  [i \in 1..Len(str) |->
     IF \E k \in 1..26 : UpperCase[k] = str[i]
     THEN LowerCase[CHOOSE k \in 1..26 : UpperCase[k] = str[i]]
     ELSE str[i]]

\* str::trim: without leading and trailing white space.
RECURSIVE trim_start(_)
trim_start(str) ==
  IF str # <<>> /\ Head(str) \in WhiteSpace THEN trim_start(Tail(str)) ELSE str
RECURSIVE trim_end(_)
trim_end(str) ==
  IF str # <<>> /\ str[Len(str)] \in WhiteSpace
  THEN trim_end(SubSeq(str, 1, Len(str) - 1))
  ELSE str
\* str::trim as the identity.
trim_id(str) == str

trim(str) == trim_end(trim_start(str))

\* str::contains: needle occurs in haystack as a contiguous run.
contains(haystack, needle) ==
  \E i \in 1..(Len(haystack) - Len(needle) + 1) :
    SubSeq(haystack, i, i + Len(needle) - 1) = needle

\* The loop of search over tree.nodes: the ids whose lower-cased name
\* contains the needle, in arena order.
search_matches_of(needle) ==
  LET Hit(id) == contains(to_ascii_lowercase(display_name(id)), needle)
  IN SelectSeq([i \in 1..Len(nodes) |-> i - 1], Hit)

\* The least element of a non-empty set of indices.
First(set) == CHOOSE i \in set : \A j \in set : i <= j

\* search selecting the first match of the arena, visible or not.
search_any(W, query) ==
  LET q == trim(query)
      needle == to_ascii_lowercase(q)
      matches == search_matches_of(needle)
      S == [W EXCEPT !.search_query = <<needle>>, !.search_matches = matches]
      E == ensure_selection(S)
  IN IF q = <<>> THEN [W EXCEPT !.search_query = <<>>, !.search_matches = <<>>]
     ELSE IF matches = <<>> THEN S
     ELSE IF ~ensure_selection_ok(S) THEN E
     ELSE [E EXCEPT !.selected = matches[1]]

\* search
search(W, query) ==
  LET q == trim(query)
      needle == to_ascii_lowercase(q)
      matches == search_matches_of(needle)
      S == [W EXCEPT !.search_query = <<needle>>, !.search_matches = matches]
      E == ensure_selection(S)
      visible == E.visible_cache
      current_index == IF E.selected = None THEN None
                       ELSE selected_index(visible, E.selected)
      \* 0-based indices of the visible entries that are matches
      hits == {i \in 0..(Len(visible) - 1) : visible[i + 1].id \in Ids(matches)}
      later == {i \in hits : i >= current_index}
      next_match == IF later # {} THEN First(later)
                    ELSE IF hits # {} THEN First(hits)
                    ELSE None
  IN IF q = <<>> THEN [W EXCEPT !.search_query = <<>>, !.search_matches = <<>>]
     ELSE IF matches = <<>> THEN S
     ELSE IF ~ensure_selection_ok(S) THEN E
     ELSE IF current_index = None THEN E
     ELSE IF next_match # None
          THEN [E EXCEPT !.selected = visible[next_match + 1].id]
          ELSE E

\* is_search_match
is_search_match(W, id) == W.search_query # <<>> /\ id \in Ids(W.search_matches)

\* expand of widget_state.rs: a newly opened node marks the cache dirty.
widget_state_expand(W) ==
  LET E == ensure_selection(W)
      sel == E.selected
  IN IF ~ensure_selection_ok(W) \/ sel = None THEN E
     ELSE IF ~HasNode(sel) THEN E
     ELSE IF Children(sel) = <<>> THEN E
     ELSE IF sel \notin E.open
          THEN [E EXCEPT !.open = E.open \cup {sel}, !.dirty = TRUE]
          ELSE [E EXCEPT !.selected = Children(sel)[1]]

\* collapse of widget_state.rs: a closed node marks the cache dirty.
widget_state_collapse(W) ==
  LET E == ensure_selection(W)
      sel == E.selected
  IN IF ~ensure_selection_ok(W) \/ sel = None THEN E
     ELSE IF ~HasNode(sel) THEN E
     ELSE IF Children(sel) # <<>> /\ sel \in E.open
          THEN [E EXCEPT !.open = E.open \ {sel}, !.dirty = TRUE]
          ELSE IF Parent(sel) # None
               THEN [E EXCEPT !.selected = Parent(sel)]
               ELSE E

\* select_next_sibling of widget_state.rs: returns at a node without parent.
widget_state_select_next_sibling(W) ==
  LET sel == W.selected
      pos == Position(Children(Parent(sel)), sel)
  IN IF sel = None THEN W
     ELSE IF ~HasNode(sel) THEN W
     ELSE IF Parent(sel) = None THEN W
     ELSE IF ~HasNode(Parent(sel)) THEN W
     ELSE IF pos = None THEN W
     ELSE IF pos + 1 < Len(Children(Parent(sel)))
          THEN [W EXCEPT !.selected = Children(Parent(sel))[pos + 2]]
          ELSE W

\* select_previous_sibling of widget_state.rs: returns at a node without
\* parent.
widget_state_select_previous_sibling(W) ==
  LET sel == W.selected
      pos == Position(Children(Parent(sel)), sel)
  IN IF sel = None THEN W
     ELSE IF ~HasNode(sel) THEN W
     ELSE IF Parent(sel) = None THEN W
     ELSE IF ~HasNode(Parent(sel)) THEN W
     ELSE IF pos = None THEN W
     ELSE IF pos > 0
          THEN [W EXCEPT !.selected = Children(Parent(sel))[pos]]
          ELSE W

\* What the field selected holds, as ensure_selection tells it apart: no id,
\* an id outside the arena, a node of the visible list, a node outside it.
SelectionOf(W) ==
  IF W.selected = None THEN "unset"
  ELSE IF ~HasNode(W.selected) THEN "absent"
  ELSE IF \E i \in 1..Len(visible_nodes(W).visible_cache) :
            visible_nodes(W).visible_cache[i].id = W.selected
       THEN "visible"
       ELSE "hidden"

(***************************************************************************)
(* ops/tree/tui/widget: style.rs, lineage.rs, render.rs.  A Line is the    *)
(* sequence of the characters of its spans, styles left out; a character   *)
(* outside ASCII is written as its code point ("U+2502").  An Option<Line> *)
(* is the empty sequence (None) or the one-element sequence of the line.   *)
(* The arena of the model holds no version, manifest directory or          *)
(* proc-macro flag, so a crate's line ends with its name.                  *)
(***************************************************************************)
\* TreeWidgetStyle::default()
node_symbol == "U+2022"
node_closed_symbol == "U+25B8"
node_open_symbol == "U+25BE"
branch_symbol == <<"U+251C", "U+2500", "U+2500">>
last_branch_symbol == <<"U+2514", "U+2500", "U+2500">>
continuation_symbol == <<"U+2502", " ", " ">>
empty_symbol == <<" ", " ", " ">>

\* DependencyNode::is_group
is_group(id) == Node(id).tag = "Group"

\* The position after which has_more_visible_siblings looks: the last
\* place of node_id in the list (0 when it is not there).
LastPlace(list, node_id) ==
  IF \E i \in 1..Len(list) : list[i] = node_id
  THEN CHOOSE i \in 1..Len(list) :
         list[i] = node_id /\ \A j \in (i + 1)..Len(list) : list[j] # node_id
  ELSE 0

\* Any later sibling, Group headers included.
has_more_visible_siblings_any(parent_id, node_id) ==
  IF ~HasNode(parent_id) THEN FALSE
  ELSE LET children == Children(parent_id)
       IN \E i \in (LastPlace(children, node_id) + 1)..Len(children) :
            HasNode(children[i])

\* Lineage::has_more_visible_siblings: a non-group sibling after the node.
has_more_visible_siblings(parent_id, node_id) ==
  IF ~HasNode(parent_id) THEN FALSE
  ELSE LET children == Children(parent_id)
       IN \E i \in (LastPlace(children, node_id) + 1)..Len(children) :
            HasNode(children[i]) /\ ~is_group(children[i])

\* Lineage::build returns None: the node or one of its ancestors is not in
\* the arena.
RECURSIVE lineage_some(_)
lineage_some(current) ==
  current = None \/ (HasNode(current) /\ lineage_some(Parent(current)))

\* The segments with the innermost ancestor first (the reverse left out).
RECURSIVE lineage_segments_unreversed(_)
lineage_segments_unreversed(current) ==
  IF current = None \/ ~HasNode(current) THEN <<>>
  ELSE (IF Parent(current) # None
        THEN <<[has_more_siblings |->
                  has_more_visible_siblings(Parent(current), current),
                is_group |-> is_group(current)]>>
        ELSE <<>>)
       \o lineage_segments_unreversed(Parent(current))

\* Lineage::build, the loop over the ancestors from `current` upwards and
\* the reverse: one segment per ancestor that has a parent, outermost first.
RECURSIVE lineage_segments(_)
lineage_segments(current) ==
  IF current = None \/ ~HasNode(current) THEN <<>>
  ELSE lineage_segments(Parent(current)) \o
       (IF Parent(current) # None
        THEN <<[has_more_siblings |->
                  has_more_visible_siblings(Parent(current), current),
                is_group |-> is_group(current)]>>
        ELSE <<>>)

\* Lineage::build
Lineage_build(node_id, sel) ==
  [segments |-> lineage_segments(Parent(node_id)),
   is_last |-> IF Parent(node_id) # None
               THEN ~has_more_visible_siblings(Parent(node_id), node_id)
               ELSE TRUE,
   is_selected |-> sel = node_id]

\* render_node, the loop over lineage.segments: Group segments are skipped.
RECURSIVE segment_spans(_)
segment_spans(segments) ==
  IF segments = <<>> THEN <<>>
  ELSE (IF Head(segments).is_group THEN <<>>
        ELSE IF Head(segments).has_more_siblings THEN continuation_symbol
        ELSE empty_symbol)
       \o segment_spans(Tail(segments))

\* RenderContext::render_node
render_node(W, node) ==
  IF ~HasNode(node.id) \/ ~lineage_some(node.id) THEN <<>>
  ELSE LET node_data == Node(node.id)
           lineage == Lineage_build(node.id, W.selected)
           has_children == node_data.children # <<>>
           is_open == node.id \in W.open
           show_connector == node_data.parent # None
           toggle == <<IF has_children
                       THEN (IF is_open THEN node_open_symbol
                             ELSE node_closed_symbol)
                       ELSE node_symbol, " ">>
           connector == IF lineage.is_last THEN last_branch_symbol
                        ELSE branch_symbol
       IN <<(IF show_connector
             THEN segment_spans(lineage.segments) \o
                  (IF ~is_group(node.id) THEN connector \o toggle ELSE <<>>)
             ELSE <<>>)
            \o display_name(node.id)>>

\* breadcrumb.rs: CONNECTOR_SYMBOL, CONTINUATION_SYMBOL
CONNECTOR_SYMBOL == "U+2192"
CONTINUATION_SYMBOL == "U+2026"

\* The trail from the root to `current`: the loop of
\* RenderContext::breadcrumb and of Breadcrumb::collect_crumbs, reversed.
RECURSIVE collect_crumbs(_)
collect_crumbs(current) ==
  IF current = None \/ ~HasNode(current) THEN <<>>
  ELSE collect_crumbs(Parent(current)) \o
       <<[name |-> display_name(current), is_group |-> is_group(current)]>>

\* The spans of a trail: the names with " -> " (the connector symbol
\* between two blanks) after all but the last.
RECURSIVE crumb_spans(_)
crumb_spans(trail) ==
  IF trail = <<>> THEN <<>>
  ELSE Head(trail).name \o
       (IF Len(trail) > 1 THEN <<" ", CONNECTOR_SYMBOL, " ">> ELSE <<>>)
       \o crumb_spans(Tail(trail))

\* RenderContext::breadcrumb
breadcrumb(W) == crumb_spans(collect_crumbs(W.selected))

\* The sum of name.chars().count() over the first count crumbs.
RECURSIVE names_len(_, _)
names_len(trail, count) ==
  IF count = 0 \/ trail = <<>> THEN 0
  ELSE Len(Head(trail).name) + names_len(Tail(trail), count - 1)

\* elide_crumbs: sep_len
sep_len == Len(<<" ", CONNECTOR_SYMBOL, " ">>)

\* elide_crumbs: the ellipsis crumb
ellipsis == [name |-> <<CONTINUATION_SYMBOL>>, is_group |-> FALSE]

\* elide_crumbs: full_len
full_len(trail) ==
  names_len(trail, Len(trail)) + sep_len * saturating_sub(Len(trail), 1)

\* elide_crumbs: the closure total_len (the prefix, the ellipsis, the last
\* crumb and their separators).
total_len(prefix_count, trail) ==
  names_len(trail, prefix_count) + Len(ellipsis.name)
    + Len(trail[Len(trail)].name)
    + sep_len * saturating_sub(prefix_count + 2, 1)

\* The loop taking one more crumb only while the total stays below the
\* width.
RECURSIVE grow_prefix_below(_, _, _)
grow_prefix_below(prefix_len, trail, max_width) ==
  IF prefix_len + 1 < Len(trail) - 1
     /\ total_len(prefix_len + 1, trail) < max_width
  THEN grow_prefix_below(prefix_len + 1, trail, max_width)
  ELSE prefix_len

\* elide_crumbs: the while loop, last_idx = crumbs.len() - 1.
RECURSIVE grow_prefix(_, _, _)
grow_prefix(prefix_len, trail, max_width) ==
  IF prefix_len + 1 < Len(trail) - 1
     /\ total_len(prefix_len + 1, trail) <= max_width
  THEN grow_prefix(prefix_len + 1, trail, max_width)
  ELSE prefix_len

\* Breadcrumb::elide_crumbs
elide_crumbs(trail, max_width) ==
  IF Len(trail) <= 2 THEN trail
  ELSE IF full_len(trail) <= max_width THEN trail
  ELSE SubSeq(trail, 1, grow_prefix(1, trail, max_width))
       \o <<ellipsis>> \o <<trail[Len(trail)]>>

\* impl Widget for Breadcrumb, render: the crumbs that are displayed in an
\* area of the given width.
Breadcrumb_render(trail, width) ==
  elide_crumbs(trail, saturating_sub(width, 1))

\* Line::render(area, buf): the characters that fit the width of the area.
Line_render(line, width) == SubSeq(line, 1, min(Len(line), width))

\* TreeWidget::render, breadcrumb_area: the row of the breadcrumb in an
\* inner area of rows 0 .. height - 1 of which the frame's context lines
\* take the top when the frame is scrolled; None when there is no row.
breadcrumb_area(height, context_lines_len, offset) ==
  LET context == offset > 0 /\ height > context_lines_len
      y == IF context THEN context_lines_len ELSE 0
      content_height == IF context THEN saturating_sub(height, context_lines_len)
                        ELSE height
  IN IF content_height > 0 THEN y + saturating_sub(content_height, 1)
     ELSE None

\* The lines of the visible nodes at the 0-based indices from .. to - 1.
RECURSIVE node_lines(_, _, _)
node_lines(W, from, to) ==
  IF from >= to THEN <<>>
  ELSE (IF from < Len(W.visible_cache)
        THEN render_node(W, W.visible_cache[from + 1]) ELSE <<>>)
       \o node_lines(W, from + 1, to)

\* The scrolled window starting at the node at index offset.
render_lines_from_offset(W, height) ==
  LET E == ensure_selection(W)
      selected_idx == selected_index(E.visible_cache, E.selected)
      lines == Len(E.visible_cache)
      vp == Viewport_new(height, selected_idx + 1, lines)
  IN IF ~ensure_selection_ok(W) \/ selected_idx = None THEN <<>>
     ELSE IF vp.height = 0 THEN <<>>
     ELSE IF vp.offset = 0
          THEN node_lines(E, 0, min(vp.height, lines))
          ELSE <<breadcrumb(E)>> \o
               node_lines(E, vp.offset, min(vp.offset + vp.height, lines))

\* RenderContext::render, the lines of RenderOutput.
render_lines(W, height) ==
  LET E == ensure_selection(W)
      selected_idx == selected_index(E.visible_cache, E.selected)
      lines == Len(E.visible_cache)
      vp == Viewport_new(height, selected_idx + 1, lines)
  IN IF ~ensure_selection_ok(W) \/ selected_idx = None THEN <<>>
     ELSE IF vp.height = 0 THEN <<>>
     ELSE IF vp.offset = 0
          THEN node_lines(E, 0, min(vp.height, lines))
          ELSE <<breadcrumb(E)>> \o
               node_lines(E, vp.offset + 1, min(vp.offset + vp.height, lines))

\* One call on the widget state.  last_op and last_changed record which
\* call was made last and whether it changed the state, last_selection what
\* selected held when the call was made.
Apply(W, op) ==
  /\ Loaded
  /\ terminal = "initialised"
  /\ open' = W.open
  /\ selected' = W.selected
  /\ visible_cache' = W.visible_cache
  /\ dirty' = W.dirty
  /\ viewport_height' = W.viewport_height
  /\ search_query' = W.search_query
  /\ search_matches' = W.search_matches
  /\ last_op' = op
  /\ last_changed' = (W # Self)
  /\ last_selection' = SelectionOf(Self)
  /\ UNCHANGED build_vars
  /\ UNCHANGED <<viewport_vars, crumb_vars, terminal, tui_vars>>

SelectNext == Apply(select_next(Self), "select_next")
SelectPrevious == Apply(select_previous(Self), "select_previous")
Expand == Apply(expand(Self), "expand")
Collapse == Apply(collapse(Self), "collapse")
SelectParent == Apply(select_parent(Self), "select_parent")
SelectNextSibling == Apply(select_next_sibling(Self), "select_next_sibling")
SelectPreviousSibling == Apply(select_previous_sibling(Self), "select_previous_sibling")
PageUp == Apply(page_up(Self), "page_up")
PageDown == Apply(page_down(Self), "page_down")
OpenToDepth == \E d \in 0..MaxDepthArg : Apply(open_to_depth(Self, d), "open_to_depth")
ExpandAll == Apply(expand_all(Self), "expand_all")
CollapseAll == Apply(collapse_all(Self), "collapse_all")
Render == \E h \in 0..MaxHeight : Apply(render(Self, h), "render")

\* The calls of widget_state.rs whose text differs from widget/state.rs.
WidgetStateExpand == Apply(widget_state_expand(Self), "widget_state_expand")
WidgetStateCollapse == Apply(widget_state_collapse(Self), "widget_state_collapse")
WidgetStateSelectNextSibling ==
  Apply(widget_state_select_next_sibling(Self), "widget_state_select_next_sibling")
WidgetStateSelectPreviousSibling ==
  Apply(widget_state_select_previous_sibling(Self), "widget_state_select_previous_sibling")

\* Queries given to search: empty, white space only, padded and upper-case,
\* plain, and one that only a name with an upper-case letter matches.
Queries ==
  {<<>>, <<" ", "\t">>, <<" ", "C", " ">>, <<"a">>, <<"A", "B">>}
Search == \E q \in Queries : Apply(search(Self, q), "search")

\* A write to the public field selected by the code that owns the state
\* (tests/render.rs sets state.selected directly): any Option<NodeId>,
\* the first id past the arena included.
SetSelected ==
  \E s \in {None} \cup 0..Len(nodes) :
    Apply([Self EXCEPT !.selected = s], "set_selected")

NavNext ==
  \/ SelectNext
  \/ SelectPrevious
  \/ Expand
  \/ Collapse
  \/ SelectParent
  \/ SelectNextSibling
  \/ SelectPreviousSibling
  \/ PageUp
  \/ PageDown
  \/ OpenToDepth
  \/ ExpandAll
  \/ CollapseAll
  \/ Render

\* TreeWidgetState::default()
DefaultNav ==
  /\ open = {}
  /\ selected = None
  /\ visible_cache = <<>>
  /\ dirty = TRUE
  /\ viewport_height = 0
  /\ search_query = <<>>
  /\ search_matches = <<>>
  /\ last_op = "default"
  /\ last_changed = FALSE
  /\ last_selection = "unset"

\* No Viewport computed apart from the widget's frames.
NoViewportCall ==
  /\ viewport = Viewport_default
  /\ focus_line = 0
  /\ total_lines = 0
  /\ viewport_op = "none"

\* No breadcrumb trail handled apart from the widget's frames.
NoBreadcrumbCall ==
  /\ crumbs = <<>>
  /\ area_width = 0
  /\ display_crumbs = <<>>

\* Before load: nothing built; the widget state is the default one.
Init ==
  /\ graph \in AnySnapshots \cup Failures
  /\ pc = "load"
  /\ next_pkg = 1
  /\ nodes = <<>>
  /\ roots = <<>>
  /\ node_map = {}
  /\ stack = <<>>
  /\ DefaultNav
  /\ NoViewportCall
  /\ NoBreadcrumbCall
  /\ terminal = "none"
  /\ NoKeyHandled

\* run: the tree is loaded; TuiState::new(dependency_tree)? creates the
\* state around the default TreeWidgetState and ratatui::init() initialises
\* the terminal.  (TuiState::new of tui/state.rs then opens the tree to
\* depth 3: the action OpenToDepth.)
StartTui ==
  /\ pc = "loaded"
  /\ terminal = "none"
  /\ terminal' = "initialised"
  /\ UNCHANGED build_vars
  /\ UNCHANGED <<widget_vars, viewport_vars, crumb_vars, tui_vars>>

Next == BuildNext \/ StartTui \/ NavNext

Spec == Init /\ [][Next]_vars

\* The TreeWidgetState of widget_state.rs: the calls that differ, with
\* select_next and select_previous to move the selection.
WidgetStateNav ==
  \/ SelectNext
  \/ SelectPrevious
  \/ WidgetStateExpand
  \/ WidgetStateCollapse
  \/ WidgetStateSelectNextSibling
  \/ WidgetStateSelectPreviousSibling
  \/ Search

NextWidgetState == BuildNext \/ StartTui \/ WidgetStateNav

SpecWidgetState == Init /\ [][NextWidgetState]_vars

\* The widget with its owner also writing the public field selected.
NextPub == Next \/ SetSelected

SpecPub == Init /\ [][NextPub]_vars

(***************************************************************************)
(* The functions of widget/viewport.rs on their own: a Viewport is made    *)
(* for an area, centred on a focus line and then clamped, or made by       *)
(* widget.rs's Viewport::new in one step.  The focus line is a line of the *)
(* list: 1 .. total_lines.                                                 *)
(***************************************************************************)
\* No tree and the default widget state.
NothingLoaded ==
  /\ graph = GEmpty
  /\ pc = "load"
  /\ next_pkg = 1
  /\ nodes = <<>>
  /\ roots = <<>>
  /\ node_map = {}
  /\ stack = <<>>
  /\ DefaultNav
  /\ terminal = "none"
  /\ NoKeyHandled

InitViewport ==
  /\ NothingLoaded
  /\ NoBreadcrumbCall
  /\ total_lines \in 1..MaxLines
  /\ focus_line \in 1..total_lines
  /\ viewport = Viewport_default
  /\ viewport_op = "none"

ViewportStep(V, op) ==
  /\ viewport' = V
  /\ viewport_op' = op
  /\ UNCHANGED <<focus_line, total_lines>>
  /\ UNCHANGED <<build_vars, widget_vars, crumb_vars, terminal, tui_vars>>

ViewportNewSelected ==
  /\ viewport_op = "none"
  /\ \E h \in 0..MaxAreaHeight :
       ViewportStep(Viewport_new(h, focus_line, total_lines), "Viewport_new")

ViewportNew ==
  /\ viewport_op = "none"
  /\ \E h \in 0..MaxAreaHeight : ViewportStep(viewport_new(h), "new")

CenterOn ==
  /\ viewport_op = "new"
  /\ \E r \in 0..MaxReserved :
       ViewportStep(center_on(viewport, focus_line, total_lines, r), "center_on")

ClampOffset ==
  /\ viewport_op = "center_on"
  /\ \E e \in 0..MaxExtra :
       ViewportStep(clamp_offset(viewport, total_lines, e), "clamp_offset")

NextViewport ==
  \/ ViewportNewSelected
  \/ ViewportNew
  \/ CenterOn
  \/ ClampOffset

SpecViewport == InitViewport /\ [][NextViewport]_vars

(***************************************************************************)
(* The breadcrumb of widget/breadcrumb.rs on its own: a trail of crumbs    *)
(* (the names from a root down to the selected node) is drawn in the       *)
(* bottom row of an area.  display_crumbs is the empty sequence before the *)
(* trail is drawn and the one-element sequence of the displayed crumbs     *)
(* after.                                                                  *)
(***************************************************************************)
Crumb(name) ==
  [name |-> Chars(name),
   is_group |-> name \in {"[dependencies]", "[dev-dependencies]",
                          "[build-dependencies]"}]

RECURSIVE Crumbs(_)
Crumbs(names) ==
  IF names = <<>> THEN <<>> ELSE <<Crumb(Head(names))>> \o Crumbs(Tail(names))

\* The chain of tests/render.rs, breadcrumb_when_scrolled, g selected.
ChainToG == Crumbs(<<"root", "a", "b", "c", "d", "e", "f", "g">>)

\* Trails of a tree: of no selection, of a root, of crates below crates
\* and below Group headers.
Trails ==
  {<<>>,
   Crumbs(<<"root">>),
   Crumbs(<<"root", "a">>),
   Crumbs(<<"root", "a", "c">>),
   Crumbs(<<"root", "serde", "b">>),
   Crumbs(<<"m1", "a", "b", "c">>),
   Crumbs(<<"root", "[dev-dependencies]", "x">>),
   Crumbs(<<"root", "a", "[dev-dependencies]", "serde">>),
   Crumbs(<<"root", "a", "b", "c", "d", "e">>),
   Crumbs(<<"lone", "serde", "[build-dependencies]", "dep", "serde", "Ab", "root">>),
   ChainToG}

\* Widths of the area: 0 .. MaxWidth, and the wide area of the test.
AreaWidths == 0..MaxWidth \cup {WideArea}

InitBreadcrumb ==
  /\ NothingLoaded
  /\ NoViewportCall
  /\ crumbs \in Trails
  /\ area_width \in AreaWidths
  /\ display_crumbs = <<>>

BreadcrumbRender ==
  /\ display_crumbs = <<>>
  /\ display_crumbs' = <<Breadcrumb_render(crumbs, area_width)>>
  /\ UNCHANGED <<crumbs, area_width>>
  /\ UNCHANGED <<build_vars, widget_vars, viewport_vars, terminal, tui_vars>>

NextBreadcrumb == BreadcrumbRender

SpecBreadcrumb == InitBreadcrumb /\ [][NextBreadcrumb]_vars

(***************************************************************************)
(* Properties.                                                             *)
(***************************************************************************)
\* What visible_nodes() returns in the current state.
VisibleNow == visible_nodes(Self).visible_cache
VisibleIds(v) == {v[i].id : i \in 1..Len(v)}

\* The ancestors of a node, by its parent links.
RECURSIVE Ancestors(_)
Ancestors(n) ==
  IF Parent(n) = None THEN {} ELSE {Parent(n)} \cup Ancestors(Parent(n))

\* The path from a root down to n, by parent links.
RECURSIVE Path(_)
Path(n) == IF Parent(n) = None THEN <<n>> ELSE Append(Path(Parent(n)), n)

\* x comes before y in the pre-order walk that visits children in stored
\* order: x is a proper ancestor of y, or where their paths part x's branch
\* stands earlier in the shared parent's children list (or in roots).
PreorderBefore(x, y) ==
  LET px == Path(x)
      py == Path(y)
      Level(k) == IF k = 1 THEN roots ELSE Children(px[k - 1])
  IN \/ /\ Len(px) < Len(py)
        /\ SubSeq(py, 1, Len(px)) = px
     \/ \E k \in 1..Len(px) :
          /\ k <= Len(py)
          /\ \A j \in 1..(k - 1) : px[j] = py[j]
          /\ px[k] # py[k]
          /\ Position(Level(k), px[k]) < Position(Level(k), py[k])

\* v is the visible list of the open set op.
IsVisibleList(v, op) ==
  /\ VisibleIds(v) = {n \in NodeIds : Ancestors(n) \subseteq op}
  /\ \A i, j \in 1..Len(v) : i # j => v[i].id # v[j].id
  /\ \A i \in 1..Len(v) : v[i].depth = Cardinality(Ancestors(v[i].id))
  /\ \A i, j \in 1..Len(v) : i < j => PreorderBefore(v[i].id, v[j].id)

\* C1: on a well-formed tree, after any sequence of navigation operations,
\* the visible cache that expand keeps by splicing and collapse by draining
\* is the list a full rebuild_visible yields from the current open set (same
\* ids, same depths, same order); expand and collapse leave the cache clean.
C1_IncrementalEqualsRebuild ==
  /\ ~dirty => visible_cache = rebuild_visible(open)
  /\ last_op \in {"expand", "collapse"} => ~dirty

\* C1 witness: expand has just opened a node one of whose children was
\* already open, so nested descendants were spliced in.
C1_Witness ==
  /\ last_op = "expand" /\ last_changed
  /\ selected \in open
  /\ \E c \in Ids(Children(selected)) : c \in open

\* C2: whenever selected is set it names a node of the current visible
\* sequence, also after select_parent, the sibling moves and expand's move
\* to the first child.
C2_SelectedIsVisible ==
  selected # None => selected \in VisibleIds(VisibleNow)

\* C2 witness: select_parent has just moved the selection.
C2_Witness ==
  /\ last_op = "select_parent" /\ last_changed
  /\ selected # None

\* C3: for every open set, visible_nodes() returns exactly the nodes all of
\* whose proper ancestors are open, each once, in pre-order with children in
\* stored order, each paired with its number of ancestors; and a cache not
\* flagged dirty already is that list.
C3_VisibleNodesCorrect ==
  Loaded =>
    /\ IsVisibleList(VisibleNow, open)
    /\ ~dirty => IsVisibleList(visible_cache, open)
    /\ last_op = "default" =>
         \A op \in SUBSET NodeIds : IsVisibleList(rebuild_visible(op), op)

\* C3 witness: a node at depth 2 is visible while one of its siblings'
\* parents is closed.
C3_Witness ==
  /\ Loaded /\ ~dirty
  /\ \E i \in 1..Len(visible_cache) : visible_cache[i].depth >= 2
  /\ \E n \in NodeIds : Children(n) # <<>> /\ n \notin open /\ n \in VisibleIds(visible_cache)

\* C4: in every built tree parent and children links are symmetric, and a
\* node has no parent exactly when roots lists it.
C4_LinksSymmetric ==
  pc = "loaded" => LinksSymmetric

\* C4 witness: a built tree with two roots and a Group node.
C4_Witness ==
  /\ pc = "loaded"
  /\ Len(roots) = 2
  /\ \E n \in NodeIds : Node(n).tag = "Group" /\ Children(n) # <<>>

\* C5: no two Crate nodes share (package, parent NodeId); the package
\* depended on as Normal by root and as Dev by a yields one node directly
\* under root and another under a [dev-dependencies] Group whose parent is a.
C5_OneCratePerPackageAndParent ==
  /\ \A m, n \in NodeIds :
       (m # n /\ Node(m).tag = "Crate" /\ Node(n).tag = "Crate")
         => ~(Node(m).name = Node(n).name /\ Parent(m) = Parent(n))
  /\ (pc = "loaded" /\ graph = GSerde) =>
       LET serdes == {n \in NodeIds : Node(n).tag = "Crate" /\ Node(n).name = "serde"}
       IN /\ Cardinality(serdes) = 2
          /\ \E s \in serdes :
               /\ Parent(s) \in Ids(roots)
               /\ Node(Parent(s)).name = "root"
               /\ s \in Ids(Children(Parent(s)))
          /\ \E s \in serdes :
               LET g == Parent(s)
               IN /\ HasNode(g)
                  /\ Node(g).tag = "Group"
                  /\ Node(g).kind = "Dev"
                  /\ Node(g).name = "[dev-dependencies]"
                  /\ s \in Ids(Children(g))
                  /\ HasNode(Parent(g))
                  /\ Node(Parent(g)).tag = "Crate"
                  /\ Node(Parent(g)).name = "a"

\* C5 witness: the serde snapshot has been built.
C5_Witness ==
  /\ pc = "loaded" /\ graph = GSerde
  /\ Len(nodes) = 5

\* C6 (as claimed): for every finite snapshot, cyclic ones included, the
\* recursive pass terminates, the (package, parent) lookup bounding the
\* arena: no chain of active build_dependency_node calls comes back to a
\* package that is still being built.  (A chain that does repeats itself
\* for ever: each repetition runs under a parent id created just before, a
\* key node_map cannot hold, so a new node is created every time.)
C6_BuildTerminates ==
  \A i, j \in 1..Len(stack) : i # j => stack[i].pkg # stack[j].pkg

\* The dependency buckets of the package a Crate node stands for.
CrateBucket(n, type) ==
  IF Node(n).name \in DOMAIN graph.resolve
  THEN Bucket(graph.resolve[Node(n).name], type)
  ELSE <<>>

\* A bucket without the packages that are absent from the package list.
RECURSIVE Known(_)
Known(pkgs) ==
  IF pkgs = <<>> THEN <<>>
  ELSE IF Head(pkgs) \in PackageIds(graph)
       THEN <<Head(pkgs)>> \o Known(Tail(pkgs))
       ELSE Known(Tail(pkgs))

Crates == {n \in NodeIds : Node(n).tag = "Crate"}
Groups == {n \in NodeIds : Node(n).tag = "Group"}
GroupSlots(n, type) ==
  {i \in 1..Len(Children(n)) :
     Node(Children(n)[i]).tag = "Group" /\ Node(Children(n)[i]).kind = type}

\* C7: in every built tree a Group's parent is a Crate and its children are
\* Crates; a Crate has a Dev (Build) Group child exactly when its Dev
\* (Build) bucket is non-empty, and at most one; no Normal Group exists and
\* Normal dependencies are direct children of the Crate.
C7_GroupsUnderCrates ==
  pc = "loaded" =>
    /\ \A g \in Groups :
         /\ Parent(g) \in Crates
         /\ \A c \in Ids(Children(g)) : c \in Crates
         /\ Node(g).kind \in {"Dev", "Build"}
    /\ \A n \in Crates :
         /\ \A type \in {"Dev", "Build"} :
              Cardinality(GroupSlots(n, type)) =
                (IF CrateBucket(n, type) # <<>> THEN 1 ELSE 0)
         /\ GroupSlots(n, "Normal") = {}
         /\ {Node(c).name : c \in Ids(Children(n)) \cap Crates}
              = Ids(Known(CrateBucket(n, "Normal")))

\* C7 witness: a built Crate with a Dev Group, a Build Group and a direct
\* Normal child.
C7_Witness ==
  /\ pc = "loaded"
  /\ \E n \in Crates :
       /\ GroupSlots(n, "Dev") # {}
       /\ GroupSlots(n, "Build") # {}
       /\ Ids(Children(n)) \cap Crates # {}

\* What a child stands for: a package, or the Group of a dependency type.
Slot(c) ==
  IF Node(c).tag = "Group" THEN <<"Group", Node(c).kind>> ELSE <<"Crate", Node(c).name>>
ChildSlots(n) == [i \in 1..Len(Children(n)) |-> Slot(Children(n)[i])]
ChildNames(n) == [i \in 1..Len(Children(n)) |-> Node(Children(n)[i]).name]

\* The children the edges would give if each Group stood where the first
\* member of its bucket is met.
RECURSIVE FirstMetSlots(_, _)
FirstMetSlots(deps, seen) ==
  IF deps = <<>> THEN <<>>
  ELSE LET type == DepType(Head(deps).dep_kinds)
           pkg == Head(deps).pkg
       IN IF type = "Normal"
          THEN (IF pkg \in PackageIds(graph) THEN <<(<<"Crate", pkg>>)>> ELSE <<>>)
                 \o FirstMetSlots(Tail(deps), seen)
          ELSE IF type \in {"Dev", "Build"} /\ type \notin seen
          THEN <<(<<"Group", type>>)>> \o FirstMetSlots(Tail(deps), seen \cup {type})
          ELSE FirstMetSlots(Tail(deps), seen)

\* The children with the Normal ones first and the Groups after them.
NormalsThenGroups(n) ==
  [i \in 1..Len(Known(CrateBucket(n, "Normal"))) |->
     <<"Crate", Known(CrateBucket(n, "Normal"))[i]>>]
    \o (IF CrateBucket(n, "Dev") # <<>> THEN <<(<<"Group", "Dev">>)>> ELSE <<>>)
    \o (IF CrateBucket(n, "Build") # <<>> THEN <<(<<"Group", "Build">>)>> ELSE <<>>)

\* C8 (as claimed): a crate's children keep first-encountered edge order,
\* the Group of a Dev or Build bucket standing at the position where the
\* first member of that bucket is met among the crate's edges.
C8_GroupAtFirstMember ==
  pc = "loaded" =>
    \A n \in Crates :
      Node(n).name \in DOMAIN graph.resolve =>
        ChildSlots(n) = FirstMetSlots(graph.resolve[Node(n).name], {})

\* C8 (amended): a crate's children are its Normal dependencies in edge
\* order, then the Dev Group if the Dev bucket is non-empty, then the Build
\* Group if the Build bucket is non-empty; a Group's children are the
\* members of its bucket in edge order.
C8_NormalsThenGroups ==
  pc = "loaded" =>
    /\ \A n \in Crates : ChildSlots(n) = NormalsThenGroups(n)
    /\ \A g \in Groups :
         ChildNames(g) = Known(CrateBucket(Parent(g), Node(g).kind))

\* C8 witness: a built crate whose first edge is a Dev edge and whose
\* children are a Normal child, the Dev Group, the Build Group.
C8_Witness ==
  /\ pc = "loaded"
  /\ \E n \in Crates :
       /\ Node(n).name \in DOMAIN graph.resolve
       /\ graph.resolve[Node(n).name] # <<>>
       /\ DepType(graph.resolve[Node(n).name][1].dep_kinds) = "Dev"
       /\ Len(Children(n)) = 3
       /\ Len(Children(Children(n)[2])) = 2

\* C9: after expand_all, from any prior state, visible_nodes() holds every
\* arena node exactly once, in pre-order, and open is exactly the set of
\* nodes that have a child.
C9_ExpandAllShowsAll ==
  last_op = "expand_all" =>
    /\ open = {n \in NodeIds : Children(n) # <<>>}
    /\ Len(VisibleNow) = Len(nodes)
    /\ VisibleIds(VisibleNow) = NodeIds
    /\ \A i, j \in 1..Len(VisibleNow) :
         i < j => PreorderBefore(VisibleNow[i].id, VisibleNow[j].id)

\* C9 witness: expand_all has changed the state of a tree of 6 nodes or more.
C9_Witness ==
  /\ last_op = "expand_all" /\ last_changed
  /\ Len(nodes) >= 6
  /\ Len(visible_cache) = Len(nodes)

RootList == [i \in 1..Len(roots) |-> VisibleNode(roots[i], 0)]

\* C10 (as claimed): after collapse_all, from any prior state,
\* visible_nodes() is the root list in order, each root at depth 0, and
\* selected names a root.
C10_CollapseAllSelectsRoot ==
  last_op = "collapse_all" =>
    /\ open = {}
    /\ VisibleNow = RootList
    /\ selected \in Ids(roots)

\* C10 (amended): after collapse_all, from any prior state, visible_nodes()
\* is the root list in order, each root at depth 0, and selected names a
\* root if the tree has one and is unset if it has none.
C10_CollapseAllShowsRoots ==
  last_op = "collapse_all" =>
    /\ open = {}
    /\ VisibleNow = RootList
    /\ roots # <<>> => selected \in Ids(roots)
    /\ roots = <<>> => selected = None

\* C10 witness: collapse_all has closed open nodes of a tree with two roots.
C10_Witness ==
  /\ last_op = "collapse_all" /\ last_changed
  /\ Len(roots) = 2
  /\ selected \in Ids(roots)

\* The depth of a node, roots at depth 1, by its parent links.
Depth(n) == Cardinality(Ancestors(n)) + 1

\* v lists each of its ids once, in pre-order, each with its number of
\* ancestors.
InPreorder(v) ==
  /\ \A i, j \in 1..Len(v) : i # j => v[i].id # v[j].id
  /\ \A i \in 1..Len(v) : v[i].depth = Cardinality(Ancestors(v[i].id))
  /\ \A i, j \in 1..Len(v) : i < j => PreorderBefore(v[i].id, v[j].id)

\* C11: from every state of every tree and for every d >= 1,
\* open_to_depth(d) leaves open equal to the set of nodes that have a child
\* and whose depth (roots at depth 1) is below d, whatever open held before,
\* and visible_nodes() is then the nodes of depth <= d in pre-order; for
\* d = 1 open is empty and the visible sequence is the root list.
C11_OpenToDepth ==
  Loaded =>
    \A d \in 1..MaxDepthArg :
      LET R == open_to_depth(Self, d)
          V == visible_nodes(R).visible_cache
      IN /\ R.open = {n \in NodeIds : Children(n) # <<>> /\ Depth(n) < d}
         /\ VisibleIds(V) = {n \in NodeIds : Depth(n) <= d}
         /\ InPreorder(V)
         /\ d = 1 => R.open = {} /\ V = RootList

\* C11 witness: open_to_depth has replaced the open set by one that opens
\* some node with a child and leaves a deeper node with a child closed.
C11_Witness ==
  /\ last_op = "open_to_depth" /\ last_changed
  /\ open # {}
  /\ \E n \in NodeIds : Children(n) # <<>> /\ n \notin open /\ Depth(n) >= 2
  /\ \A n \in open : \A m \in NodeIds :
       (Children(m) # <<>> /\ Depth(m) <= Depth(n)) => m \in open

\* The nodes below n, by parent links.
Descendants(n) == {m \in NodeIds : n \in Ancestors(m)}

\* The selection is valid: set, and among the visible nodes.
ValidSelection == selected # None /\ selected \in VisibleIds(VisibleNow)

\* C12: expand on a valid selection.  A selected node that has children and
\* is not open is added to open, stays selected, and the visible nodes gain
\* exactly its descendants whose ancestors below it are all open (its
\* children among them), the sequence staying in pre-order.  A selected node
\* that is open keeps open as it is and the selection moves to its first
\* child.  On a node without children open, selected and the visible
\* sequence stay as they are.  The expand of widget_state.rs, which rebuilds
\* instead of splicing, gives the same open, selected and visible sequence.
C12_Expand ==
  (Loaded /\ ValidSelection) =>
    LET R == expand(Self)
        V == visible_nodes(R).visible_cache
        Q == visible_nodes(widget_state_expand(Self))
        Shown == {m \in Descendants(selected) :
                    (Ancestors(m) \cap Descendants(selected)) \subseteq open}
    IN /\ (Children(selected) # <<>> /\ selected \notin open) =>
            /\ R.open = open \cup {selected}
            /\ R.selected = selected
            /\ VisibleIds(V) = VisibleIds(VisibleNow) \cup Shown
            /\ Ids(Children(selected)) \subseteq VisibleIds(V)
            /\ InPreorder(V)
       /\ selected \in open =>
            /\ R.open = open
            /\ R.selected = Children(selected)[1]
            /\ V = VisibleNow
       /\ Children(selected) = <<>> =>
            /\ R.open = open
            /\ R.selected = selected
            /\ V = VisibleNow
       /\ Q.open = R.open /\ Q.selected = R.selected /\ Q.visible_cache = V

\* C12 witness: expand has opened the selected node and a grandchild of it
\* is visible, because a child of it was open already.
C12_Witness ==
  /\ last_op = "expand" /\ last_changed
  /\ selected \in open
  /\ \E m \in Descendants(selected) :
       /\ Parent(m) # selected
       /\ m \in VisibleIds(visible_cache)

\* C13: collapse on a valid selection.  A selected node that is open is
\* removed from open, alone; it stays selected and exactly its descendants
\* leave the visible sequence, the rest keeping its order.  A selected node
\* that is not open (closed, or without children) and has a parent keeps
\* open as it is and the selection moves to the parent.  On a root that is
\* not open nothing changes.  The collapse of widget_state.rs gives the
\* same open, selected and visible sequence.
C13_Collapse ==
  (Loaded /\ ValidSelection) =>
    LET R == collapse(Self)
        V == visible_nodes(R).visible_cache
        Q == visible_nodes(widget_state_collapse(Self))
        Stays(e) == e.id \notin Descendants(selected)
    IN /\ selected \in open =>
            /\ R.open = open \ {selected}
            /\ R.selected = selected
            /\ VisibleIds(V) = VisibleIds(VisibleNow) \ Descendants(selected)
            /\ V = SelectSeq(VisibleNow, Stays)
       /\ (selected \notin open /\ Parent(selected) # None) =>
            /\ R.open = open
            /\ R.selected = Parent(selected)
            /\ V = VisibleNow
       /\ (selected \notin open /\ Parent(selected) = None) =>
            /\ R.open = open
            /\ R.selected = selected
            /\ V = VisibleNow
       /\ Q.open = R.open /\ Q.selected = R.selected /\ Q.visible_cache = V

\* C13 witness: collapse has closed the selected node while a node below it
\* stays in open.
C13_Witness ==
  /\ last_op = "collapse" /\ last_changed
  /\ selected # None /\ selected \notin open
  /\ Descendants(selected) \cap open # {}

\* What a call leaves alone besides the selection: open, the sequence
\* visible_nodes() returns, the stored viewport and the search state.
SameButSelected(R) ==
  /\ R.open = open
  /\ visible_nodes(R).visible_cache = VisibleNow
  /\ R.viewport_height = viewport_height
  /\ R.search_query = search_query
  /\ R.search_matches = search_matches

\* C14: with a valid selection at position i of the visible sequence,
\* select_next selects the node at position i + 1, or leaves the selection
\* where it is when i is the last position; select_previous selects the
\* node at position i - 1, or leaves it when i is the first; neither
\* changes anything else; and when i is not the last position, select_next
\* followed by select_previous selects the node selected before.
C14_NextPrevious ==
  (Loaded /\ ValidSelection) =>
    LET V == VisibleNow
        i == CHOOSE k \in 1..Len(V) : V[k].id = selected
        N == select_next(Self)
        P == select_previous(Self)
    IN /\ N.selected = (IF i < Len(V) THEN V[i + 1].id ELSE selected)
       /\ P.selected = (IF i > 1 THEN V[i - 1].id ELSE selected)
       /\ SameButSelected(N)
       /\ SameButSelected(P)
       /\ i < Len(V) => select_previous(N).selected = selected

\* C14 witness: select_previous has moved the selection to a node that is
\* neither the first nor the last of the visible sequence.
C14_Witness ==
  /\ last_op = "select_previous" /\ last_changed
  /\ Len(visible_cache) >= 3
  /\ \E k \in 2..(Len(visible_cache) - 1) : visible_cache[k].id = selected

\* What C15 says of select_parent and of a pair of sibling moves: with a
\* valid selection, select_parent selects the parent, or leaves a root
\* selected; the sibling moves select the entry after / before the selected
\* node in its parent's children list, or in the root list when it is a
\* root, whatever is open, and leave the selection at the last / first
\* entry; none changes open or the visible sequence.
SiblingMovesAsClaimed(next_sibling(_), previous_sibling(_)) ==
  (Loaded /\ ValidSelection) =>
    LET list == IF Parent(selected) # None THEN Children(Parent(selected)) ELSE roots
        k == CHOOSE i \in 1..Len(list) : list[i] = selected
        Up == select_parent(Self)
        Nx == next_sibling(Self)
        Pv == previous_sibling(Self)
    IN /\ Up.selected = (IF Parent(selected) # None THEN Parent(selected) ELSE selected)
       /\ Nx.selected = (IF k < Len(list) THEN list[k + 1] ELSE selected)
       /\ Pv.selected = (IF k > 1 THEN list[k - 1] ELSE selected)
       /\ SameButSelected(Up)
       /\ SameButSelected(Nx)
       /\ SameButSelected(Pv)

\* The sibling moves of widget/state.rs do what C15 says.
SiblingMovesOfWidget ==
  SiblingMovesAsClaimed(select_next_sibling, select_previous_sibling)

\* C15 (as claimed), for the TreeWidgetState of widget_state.rs, the one
\* TuiState holds: select_parent and the sibling moves do what the claim
\* says, the moves along the root list included.
C15_SiblingMoves ==
  SiblingMovesAsClaimed(widget_state_select_next_sibling,
                        widget_state_select_previous_sibling)

\* page_down and page_up move a valid selection by step positions in the
\* visible sequence, stopping at the last / first position, and change
\* nothing else.
PageMovesBy(step) ==
  (Loaded /\ ValidSelection) =>
    LET V == VisibleNow
        i == CHOOSE k \in 1..Len(V) : V[k].id = selected
        down == IF i + step > Len(V) THEN Len(V) ELSE i + step
        up == IF i - step < 1 THEN 1 ELSE i - step
        D == page_down(Self)
        U == page_up(Self)
    IN /\ D.selected = V[down].id
       /\ U.selected = V[up].id
       /\ SameButSelected(D)
       /\ SameButSelected(U)

\* C16 (as claimed): page_down moves the selection forward and page_up
\* backward in the visible sequence by exactly the viewport height the last
\* render stored, clamped to the last / first visible node; open and the
\* visible sequence are unchanged.  (Stated for a stored height of at
\* least one line.)
C16_PageByHeight == viewport_height >= 1 => PageMovesBy(viewport_height)

\* C16 (amended): page_down moves the selection forward and page_up
\* backward in the visible sequence by the stored viewport height less one,
\* and by one when that height is 0 or 1, clamped to the last / first
\* visible node; open and the visible sequence are unchanged.
C16_PageByHeightLessOne ==
  PageMovesBy(IF viewport_height > 1 THEN viewport_height - 1 ELSE 1)

\* C16 witness: with a stored height of 3 or more, page_down has moved the
\* selection to a position that is at least the third and not the last, so
\* the move was not clamped.
C16_Witness ==
  /\ last_op = "page_down" /\ last_changed
  /\ viewport_height >= 3
  /\ \E k \in 3..(Len(visible_cache) - 1) : visible_cache[k].id = selected

\* Two characters that are equal, or the upper- and lower-case form of one
\* ASCII letter.
SameLetter(x, y) ==
  x = y \/ \E k \in 1..26 : {x, y} = {UpperCase[k], LowerCase[k]}

\* The text holds the word as a contiguous run, case of letters ignored.
ContainsIgnoringCase(text, word) ==
  \E i \in 0..(Len(text) - Len(word)) :
    \A j \in 1..Len(word) : SameLetter(text[i + j], word[j])

\* The arena nodes whose display name holds the word, in arena order.
MatchesOf(word) ==
  LET Named(id) == ContainsIgnoringCase(Chars(Node(id).name), word)
  IN SelectSeq([i \in 1..Len(nodes) |-> i - 1], Named)

\* The query without the white space around it.
Trimmed(query) ==
  LET inside == {i \in 1..Len(query) : query[i] \notin WhiteSpace}
  IN IF inside = {} THEN <<>>
     ELSE SubSeq(query, CHOOSE i \in inside : \A j \in inside : i <= j,
                        CHOOSE i \in inside : \A j \in inside : i >= j)

Least(set) == CHOOSE i \in set : \A j \in set : i <= j

\* The node of a non-empty set that the pre-order walk of the whole tree
\* meets first.
FirstInPreorder(set) ==
  CHOOSE m \in set : \A n \in set \ {m} : PreorderBefore(m, n)

C18_UniqueMatchSelected ==
  Loaded =>
    \A query \in Queries :
      (Trimmed(query) # <<>> /\ Len(MatchesOf(Trimmed(query))) = 1) =>
        LET R == search(Self, query)
        IN /\ R.selected = MatchesOf(Trimmed(query))[1]
           /\ search(R, query).selected = R.selected

\* C18 (amended): for a query that is a substring of exactly one node's
\* name, search selects that node from every prior state in which the node
\* is visible (all its ancestors open); when it is hidden below a closed
\* node the selection stays where it was, or is set to the first visible
\* node when it was unset; the same search applied again leaves selected
\* unchanged in both cases.
C18_UniqueVisibleMatchSelected ==
  Loaded =>
    \A query \in Queries :
      (Trimmed(query) # <<>> /\ Len(MatchesOf(Trimmed(query))) = 1) =>
        LET R == search(Self, query)
            only == MatchesOf(Trimmed(query))[1]
        IN /\ only \in VisibleIds(VisibleNow) => R.selected = only
           /\ only \notin VisibleIds(VisibleNow) =>
                R.selected = (IF ValidSelection THEN selected ELSE VisibleNow[1].id)
           /\ search(R, query).selected = R.selected

\* C18 witness: search has moved the selection to the only match, which
\* stands below the top of the visible sequence.
C18_Witness ==
  /\ last_op = "search" /\ last_changed
  /\ Len(search_matches) = 1
  /\ selected = search_matches[1]
  /\ \E k \in 2..Len(VisibleNow) : VisibleNow[k].id = selected

\* C19: search, with any query, leaves open as it is and leaves the
\* sequence visible_nodes() returns as it is; with a query that is empty or
\* white space only it clears the stored query and the match list and
\* leaves selected as it is.
C19_SearchFrame ==
  Loaded =>
    \A query \in Queries :
      LET R == search(Self, query)
      IN /\ R.open = open
         /\ visible_nodes(R).visible_cache = VisibleNow
         /\ Trimmed(query) = <<>> =>
              /\ R.search_query = <<>>
              /\ R.search_matches = <<>>
              /\ R.selected = selected

\* C19 witness: a search with an empty or blank query has cleared a stored
\* query while a match of that query was hidden below a closed node.
C19_Witness ==
  /\ last_op = "search" /\ last_changed
  /\ search_query = <<>> /\ search_matches = <<>>
  /\ selected # None
  /\ \E n \in NodeIds : Children(n) # <<>> /\ n \notin open

\* selected names a node that is absent from the arena or is not visible.
StaleSelection == SelectionOf(Self) \in {"absent", "hidden"}

AtLeastZero(n) == IF n > 0 THEN n ELSE 0

\* C21: a Viewport computed for a frame (by Viewport::new with the
\* selected line, by center_on, reserved lines included, or by clamp_offset,
\* a non-zero extra offset included) has offset <= max_offset, and its
\* max_offset is max(0, total_lines - height) for its height > 0.
C21_OffsetWithinMax ==
  viewport_op \in {"Viewport_new", "center_on", "clamp_offset"} =>
    /\ viewport.offset <= viewport.max_offset
    /\ viewport.height > 0 =>
         viewport.max_offset = AtLeastZero(total_lines - viewport.height)

\* The same for Viewport::new with the selected line alone.
ViewportNewWithinMax ==
  viewport_op = "Viewport_new" =>
    /\ viewport.offset <= viewport.max_offset
    /\ viewport.height > 0 =>
         viewport.max_offset = AtLeastZero(total_lines - viewport.height)

\* The offset clamp_offset leaves is within max_offset + extra_offset.
ClampedWithinExtra ==
  viewport_op = "clamp_offset" =>
    viewport.offset <= viewport.max_offset + MaxExtra

\* ceil(h / 2): the least n with 2 n >= h
CeilHalf(h) == CHOOSE n \in 0..h : 2 * n >= h /\ \A m \in 0..(n - 1) : 2 * m < h

\* x clamped to [lo, hi]
Clamped(x, lo, hi) == IF x < lo THEN lo ELSE IF x > hi THEN hi ELSE x

\* The 1-based line of the node the frame is drawn for: the selected node,
\* or the first visible node when nothing valid is selected.
SelectedLine ==
  LET v == VisibleNow
      id == IF \E i \in 1..Len(v) : v[i].id = selected
            THEN selected ELSE v[1].id
  IN CHOOSE i \in 1..Len(v) : v[i].id = id

\* C22: for a height > 0 the offset of a frame is selected_line -
\* ceil(height / 2) clamped to [0, max(0, total_visible_lines - height)],
\* selected_line being the 1-based position of the selected node among the
\* visible nodes, and max_offset is that upper end; for height 0 offset and
\* max_offset are 0.
C22_OffsetCentred ==
  Loaded /\ VisibleNow # <<>> =>
    \A h \in 0..MaxHeight :
      LET vp == render_viewport(Self, h)
          most == AtLeastZero(Len(VisibleNow) - h)
      IN IF h = 0 THEN vp.offset = 0 /\ vp.max_offset = 0
         ELSE /\ vp.offset = Clamped(SelectedLine - CeilHalf(h), 0, most)
              /\ vp.max_offset = most

\* A frame was drawn whose offset lies strictly between 0 and max_offset.
C22_Witness ==
  /\ Loaded
  /\ last_op = "render"
  /\ viewport_height >= 2
  /\ LET vp == render_viewport(Self, viewport_height)
     IN vp.offset > 0 /\ vp.offset < vp.max_offset

\* The names of the nodes of a path, joined by " -> ".
RECURSIVE TrailOf(_)
TrailOf(path) ==
  IF Len(path) = 1 THEN display_name(path[1])
  ELSE TrailOf(SubSeq(path, 1, Len(path) - 1))
       \o <<" ", "U+2192", " ">> \o display_name(path[Len(path)])

\* The node the frame is drawn for: the selected node, or the first visible
\* node when nothing valid is selected.
FrameSelection == VisibleNow[SelectedLine].id

\* The line of the visible node at the 0-based index i.
LineAt(i) == render_node(ensure_selection(Self), VisibleNow[i + 1])[1]

Drawn == display_crumbs # <<>>
\* The width elide_crumbs was given.
SuppliedWidth == IF area_width >= 1 THEN area_width - 1 ELSE 0

\* The length of a trail as text: its names and a separator of three
\* characters between neighbours.
RECURSIVE TextLength(_)
TextLength(trail) ==
  IF trail = <<>> THEN 0
  ELSE IF Len(trail) = 1 THEN Len(trail[1].name)
  ELSE Len(trail[1].name) + 3 + TextLength(Tail(trail))

\* C24: for a trail of at least 3 crumbs the elided breadcrumb (names and
\* separators) is never longer than the width supplied to the elision.
C24_ElidedFitsWidth ==
  Drawn /\ Len(crumbs) >= 3 => TextLength(display_crumbs[1]) <= SuppliedWidth

\* The same when the root, one ellipsis and the last crumb fit the width.
ElidedFitsWidthIfRootAndLastFit ==
  Drawn /\ Len(crumbs) >= 3
  /\ Len(crumbs[1].name) + Len(crumbs[Len(crumbs)].name) + 7 <= SuppliedWidth
    => TextLength(display_crumbs[1]) <= SuppliedWidth

\* The first k crumbs, one ellipsis crumb and the last crumb.
Shortened(trail, k) ==
  SubSeq(trail, 1, k)
    \o <<[name |-> <<"U+2026">>, is_group |-> FALSE]>>
    \o <<trail[Len(trail)]>>

\* The prefix length the elision is to keep: the largest k in 1 .. n - 2
\* whose shortened trail fits the width, 1 when none fits.
KeptPrefix(trail, width) ==
  LET fitting == {k \in 1..(Len(trail) - 2) :
                    TextLength(Shortened(trail, k)) <= width}
  IN IF fitting = {} THEN 1
     ELSE CHOOSE k \in fitting : \A j \in fitting : j <= k

\* C25: the elision returns the trail unchanged when it has at most 2
\* crumbs or its full length fits the width; otherwise it returns the first
\* k crumbs, exactly one ellipsis crumb and the last crumb, k being the
\* largest prefix length in 1 .. n - 2 whose result fits the width (1 if
\* none fits): the first and the last crumb are kept and at least one crumb
\* is elided.
C25_ElisionShape ==
  Drawn =>
    LET out == display_crumbs[1]
        n == Len(crumbs)
    IN IF n <= 2 \/ TextLength(crumbs) <= SuppliedWidth
       THEN out = crumbs
       ELSE /\ out = Shortened(crumbs, KeptPrefix(crumbs, SuppliedWidth))
            /\ out[1] = crumbs[1]
            /\ out[Len(out)] = crumbs[n]
            /\ Len(out) <= n

\* A trail was elided in the middle: at least two leading crumbs kept and
\* at least two crumbs replaced by the ellipsis.
C25_Witness ==
  /\ Drawn
  /\ Len(display_crumbs[1]) >= 4
  /\ Len(crumbs) >= Len(display_crumbs[1]) + 1
  /\ display_crumbs[1][Len(display_crumbs[1]) - 1].name = <<"U+2026">>

\* The text of a trail: its names with " -> " between neighbours.
RECURSIVE TextOf(_)
TextOf(trail) ==
  IF trail = <<>> THEN <<>>
  ELSE IF Len(trail) = 1 THEN trail[1].name
  ELSE trail[1].name \o <<" ", "U+2192", " ">> \o TextOf(Tail(trail))

\* What the bottom row shows: the displayed crumbs as text, cut at the
\* width of the area.
BottomRow == Line_render(crumb_spans(display_crumbs[1]), area_width)

\* C26: the breadcrumb is drawn on the last row of the area, and for the
\* chain root, a, b, c, d, e, f, g with g selected that row shows the full
\* trail in an area of width 100 and the trail elided to root, a, b, the
\* ellipsis and g in an area of width 40.
C26_BreadcrumbRow ==
  /\ \A h \in 1..MaxAreaHeight, c \in 0..MaxReserved, o \in 0..1 :
       breadcrumb_area(h, c, o) = h - 1
  /\ Drawn /\ crumbs = ChainToG =>
       /\ area_width = WideArea => BottomRow = TextOf(ChainToG)
       /\ area_width = 40 =>
            BottomRow = TextOf(Shortened(ChainToG, 3))

\* The part of C26 the code satisfies: the row, and the full trail
\* whenever it fits the width of the area less one.
BreadcrumbRowFullTrail ==
  /\ \A h \in 1..MaxAreaHeight, c \in 0..MaxReserved, o \in 0..1 :
       breadcrumb_area(h, c, o) = h - 1
  /\ Drawn /\ TextLength(crumbs) <= SuppliedWidth => BottomRow = TextOf(crumbs)

(***************************************************************************)
(* The lines of the tree (widget/render.rs render_node, widget/lineage.rs) *)
(***************************************************************************)
\* The siblings listed after n in its parent's children.
LaterSiblings(n) ==
  LET list == Children(Parent(n))
  IN {list[j] : j \in {k \in 1..Len(list) : \E i \in 1..(k - 1) : list[i] = n}}

\* The crates among them.
LaterCrates(n) == LaterSiblings(n) \cap Crates

\* The ancestors of n below its root, outermost first.
MiddleOf(n) == SubSeq(Path(n), 2, Len(Path(n)) - 1)

\* The crates among them, in the same order.
CrateAncestors(n) == SelectSeq(MiddleOf(n), LAMBDA a : a \in Crates)

\* One guide: a continuation bar or blank padding, three columns wide.
Guide(more) ==
  IF more THEN <<"U+2502", " ", " ">> ELSE <<" ", " ", " ">>

\* The connector of a node.
Connector(last) ==
  IF last THEN <<"U+2514", "U+2500", "U+2500">>
  ELSE <<"U+251C", "U+2500", "U+2500">>

\* Guides of three columns each, written one after the other.
Flat3(parts) ==
  [p \in 1..(3 * Len(parts)) |->
     parts[((p - 1) \div 3) + 1][((p - 1) % 3) + 1]]

\* The toggle glyph of a node.
ToggleOf(n) ==
  IF Children(n) = <<>> THEN "U+2022"
  ELSE IF n \in open THEN "U+25BE" ELSE "U+25B8"

\* A prefix in which every ancestor below the root has a guide and every
\* later sibling counts.
PrefixByAnySibling(n) ==
  Flat3([i \in 1..Len(MiddleOf(n)) |->
           Guide(LaterSiblings(MiddleOf(n)[i]) # {})])
  \o Connector(LaterSiblings(n) = {})

\* A prefix in which every crate ancestor below the root has a guide and
\* only later crate siblings count.
PrefixByCrateSibling(n) ==
  Flat3([i \in 1..Len(CrateAncestors(n)) |->
           Guide(LaterCrates(CrateAncestors(n)[i]) # {})])
  \o Connector(LaterCrates(n) = {})

\* Every displayed crate has the line the prefix gives: a root its name, any
\* other crate the prefix, the toggle glyph, a space and its name.
CrateLinesBy(Prefix(_)) ==
  \A i \in 1..Len(VisibleNow) :
    LET n == VisibleNow[i].id
    IN n \in Crates =>
         LineAt(i - 1) = IF Parent(n) = None THEN display_name(n)
                         ELSE Prefix(n) \o <<ToggleOf(n), " ">> \o display_name(n)

\* The tree root -> {a -> {c}, b} is loaded and fully expanded.
BasicExpanded == Loaded /\ graph = GBasic /\ Len(VisibleNow) = 4

\* The frame of the tree in an area of 24 rows (tests/common.rs:62-67).
ContextLines == render_lines(Self, 24)

\* C27: for every displayed non-root crate node the line prefix is, for each
\* non-root ancestor, outermost first, a continuation guide if that ancestor
\* has a further sibling below it and blank padding otherwise, then the
\* last-branch connector if the node is the last child of its parent and the
\* branch connector otherwise; root lines carry no prefix; the toggle glyph is
\* the open glyph for an open node with children, the closed glyph for a
\* closed node with children and the bullet for a leaf. The tree
\* root -> {a -> {c}, b} fully expanded renders root, |-- a, |  `-- c, `-- b.
C27_LinePrefix ==
  Loaded =>
    /\ CrateLinesBy(PrefixByAnySibling)
    /\ BasicExpanded =>
         ContextLines =
           << <<"r", "o", "o", "t">>,
              <<"U+251C", "U+2500", "U+2500", " ", "a">>,
              <<"U+2502", " ", " ", "U+2514", "U+2500", "U+2500", " ", "c">>,
              <<"U+2514", "U+2500", "U+2500", " ", "b">> >>

\* C27, amended: the guides are those of the crate ancestors below the root
\* (a Group ancestor has none), a guide continues and a connector is a branch
\* connector only if a crate sibling follows (a Group sibling does not
\* count), and in the scenario each connector is followed by the toggle
\* glyph: root, |--v a, |  `--* c, `--* b.
C27_LinePrefixOfCrates ==
  Loaded =>
    /\ CrateLinesBy(PrefixByCrateSibling)
    /\ BasicExpanded =>
         ContextLines =
           << <<"r", "o", "o", "t">>,
              <<"U+251C", "U+2500", "U+2500", "U+25BE", " ", "a">>,
              <<"U+2502", " ", " ", "U+2514", "U+2500", "U+2500", "U+2022",
                " ", "c">>,
              <<"U+2514", "U+2500", "U+2500", "U+2022", " ", "b">> >>

\* Where no Group is in the tree the two prefixes agree.
PrefixesAgreeWithoutGroups ==
  Loaded /\ Groups = {} => \A n \in Crates : Parent(n) # None =>
    PrefixByAnySibling(n) = PrefixByCrateSibling(n)

\* A frame was drawn that shows a crate below two ancestors of which the
\* outer one has a guide and the inner one blank padding.
C27_Witness ==
  /\ Loaded
  /\ last_op = "render"
  /\ \E i \in 1..Len(VisibleNow) :
       LET n == VisibleNow[i].id
       IN /\ n \in Crates
          /\ Len(CrateAncestors(n)) = 2
          /\ LaterCrates(CrateAncestors(n)[1]) # {}
          /\ LaterCrates(CrateAncestors(n)[2]) = {}

\* The labels of the Group headers, character by character.
DevHeader ==
  <<"[", "d", "e", "v", "-", "d", "e", "p", "e", "n", "d", "e", "n", "c", "i",
    "e", "s", "]">>
BuildHeader ==
  <<"[", "b", "u", "i", "l", "d", "-", "d", "e", "p", "e", "n", "d", "e", "n",
    "c", "i", "e", "s", "]">>

\* The label of a Group.
HeaderOf(g) == IF Node(g).kind = "Dev" THEN DevHeader ELSE BuildHeader

\* The guides of a node: one for each crate ancestor below the root.
GuidesOf(n) ==
  Flat3([k \in 1..Len(CrateAncestors(n)) |->
           Guide(LaterCrates(CrateAncestors(n)[k]) # {})])

\* Every sibling listed after n is a Group, and there is one.
OnlyGroupsFollow(n) == LaterSiblings(n) # {} /\ LaterSiblings(n) \subseteq Groups

\* The tree root -> {a -> {[dev-dependencies] -> {serde}}, serde} is loaded
\* and fully expanded.
SerdeExpanded == Loaded /\ graph = GSerde /\ Len(VisibleNow) = 5

\* C28: Group nodes render as headers. A Group's line is its ancestors'
\* guides followed by its label only (no connector, no toggle glyph); a Group
\* ancestor adds no indentation level to its descendants (a crate's name
\* starts three columns per crate ancestor, plus the toggle, to the right);
\* Group siblings never count as further siblings: a crate whose only later
\* siblings are Groups is drawn with the last-branch connector and the guide
\* below it, on the lines of its descendants, is blank.
C28_GroupHeaders ==
  Loaded =>
    /\ \A i \in 1..Len(VisibleNow) :
         LET n == VisibleNow[i].id
             line == LineAt(i - 1)
             level == Len(CrateAncestors(n))
         IN /\ n \in Groups => line = GuidesOf(n) \o HeaderOf(n)
            /\ n \in Crates /\ Parent(n) # None =>
                 /\ Len(line) = 3 * (level + 1) + 2 + Len(display_name(n))
                 /\ OnlyGroupsFollow(n) =>
                      SubSeq(line, 3 * level + 1, 3 * level + 3)
                        = <<"U+2514", "U+2500", "U+2500">>
            /\ \A k \in 1..level :
                 OnlyGroupsFollow(CrateAncestors(n)[k]) =>
                   SubSeq(line, 3 * k - 2, 3 * k) = <<" ", " ", " ">>
    /\ SerdeExpanded =>
         ContextLines =
           << <<"r", "o", "o", "t">>,
              <<"U+251C", "U+2500", "U+2500", "U+25BE", " ", "a">>,
              <<"U+2502", " ", " ">> \o DevHeader,
              <<"U+2502", " ", " ", "U+2514", "U+2500", "U+2500", "U+2022",
                " ", "s", "e", "r", "d", "e">>,
              <<"U+2514", "U+2500", "U+2500", "U+2022", " ", "s", "e", "r",
                "d", "e">> >>

\* A frame was drawn that shows a crate followed by Groups only, one of its
\* children, a Group header and a crate below a Group.
C28_Witness ==
  /\ Loaded
  /\ last_op = "render"
  /\ \E n \in VisibleIds(VisibleNow) \cap Crates :
       /\ Parent(n) # None
       /\ OnlyGroupsFollow(n)
       /\ \E m \in VisibleIds(VisibleNow) : Parent(m) = n
  /\ \E n \in VisibleIds(VisibleNow) \cap Crates :
       Parent(n) \in Groups /\ Parent(n) \in VisibleIds(VisibleNow)

\* A frame was drawn that shows a Group header after a guide.
GuidedHeaderDrawn ==
  /\ Loaded
  /\ last_op = "render"
  /\ \E g \in VisibleIds(VisibleNow) \cap Groups :
       GuidesOf(g) = <<"U+2502", " ", " ">>

(***************************************************************************)
(* Startup (core/dependency.rs load, bin/cargo/commands/tree_tui.rs run)   *)
(***************************************************************************)
\* The graph provider failed, or its result carries no resolved graph.
ProviderFailed == graph \in Failures

\* C29: if the graph provider fails or its result carries no resolved
\* dependency graph, load returns an error without producing any tree (no
\* node, no root, no map entry, never the loaded tree), and run returns that
\* error before the terminal is initialised, any navigation state is created
\* (the widget state is never touched) or any frame is drawn; load ends in
\* an error for no other graph.
C29_LoadErrorAbortsStartup ==
  /\ ProviderFailed =>
       /\ pc \in {"load", "error"}
       /\ nodes = <<>> /\ roots = <<>> /\ node_map = {} /\ stack = <<>>
       /\ terminal = "none"
       /\ DefaultNav
       /\ last_op # "render"
  /\ pc = "error" => ProviderFailed

\* load returned its error for a provider result without a resolved graph.
C29_Witness ==
  /\ pc = "error"
  /\ graph = GNoResolve
  /\ terminal = "none"

\* load returned its error for a failed provider.
ExecErrorReturned == pc = "error" /\ graph = GExecFails

(***************************************************************************)
(* Edges to absent packages, members without a resolved entry              *)
(***************************************************************************)
\* The packages of the package list.
Listed == {graph.packages[i] : i \in 1..Len(graph.packages)}

\* The packages of a bucket that are in the package list, in edge order.
ListedOf(pkgs) == SelectSeq(pkgs, LAMBDA p : p \in Listed)

\* The names of the Crate children of a node, in order.
CrateChildNames(n) ==
  LET crates == SelectSeq(Children(n), LAMBDA c : c \in Crates)
  IN [i \in 1..Len(crates) |-> Node(crates[i]).name]

\* Some edge of the resolved graph references a package that is absent from
\* the package list.
Dangling ==
  \E p \in DOMAIN graph.resolve :
    \E i \in 1..Len(graph.resolve[p]) : graph.resolve[p][i].pkg \notin Listed

\* The workspace members of the package list that have no entry in the
\* resolved graph.
UnresolvedMembers ==
  {m \in graph.members \cap Listed : m \notin DOMAIN graph.resolve}

\* C30: a dependency edge that references a package absent from the package
\* list creates no node (every Crate stands for a listed package) and no
\* entry in the parent's children list (a children list holds ids of nodes
\* only; a Crate's Crate children are the listed packages of its Normal
\* bucket and a Group's children the listed packages of its bucket, one
\* entry each), and the build still succeeds; a workspace member that has no
\* entry in the resolved graph yields exactly one childless Crate node listed
\* in roots.
C30_AbsentAndUnresolved ==
  /\ \A n \in NodeIds : \A i \in 1..Len(Children(n)) : HasNode(Children(n)[i])
  /\ pc = "error" => "resolve" \notin DOMAIN graph
  /\ pc = "loaded" =>
       /\ \A n \in Crates :
            /\ Node(n).name \in Listed
            /\ CrateChildNames(n) = ListedOf(CrateBucket(n, "Normal"))
       /\ \A g \in Groups :
            CrateChildNames(g) = ListedOf(CrateBucket(Parent(g), Node(g).kind))
       /\ \A m \in UnresolvedMembers :
            /\ Cardinality({i \in 1..Len(roots) : Node(roots[i]).name = m}) = 1
            /\ \A i \in 1..Len(roots) :
                 Node(roots[i]).name = m =>
                   /\ roots[i] \in Crates
                   /\ Children(roots[i]) = <<>>
                   /\ Parent(roots[i]) = None

\* A tree was built from a graph with edges to an absent package and with a
\* workspace member that has no resolved entry; a Group of the tree stands
\* for a bucket of absent packages only.
C30_Witness ==
  /\ pc = "loaded"
  /\ Dangling
  /\ UnresolvedMembers # {}
  /\ \E g \in Groups : Children(g) = <<>>

(***************************************************************************)
(* Dependency paths (core/dependency.rs build_dependency_node)             *)
(***************************************************************************)
\* The edge has a kind the builder recognises.
Recognised(dep) ==
  \E i \in 1..Len(dep.dep_kinds) :
    dep.dep_kinds[i] \in {"normal", "development", "build"}

\* The listed packages a package depends on through a recognised edge.
EdgeTargets(p) ==
  IF p \in DOMAIN graph.resolve
  THEN {graph.resolve[p][i].pkg :
          i \in {j \in 1..Len(graph.resolve[p]) : Recognised(graph.resolve[p][j])}}
       \cap Listed
  ELSE {}

\* The dependency paths of k packages that start at a workspace member.
RECURSIVE PathsOfLength(_)
PathsOfLength(k) ==
  IF k = 1 THEN {<<m>> : m \in graph.members \cap Listed}
  ELSE UNION {{Append(path, q) : q \in EdgeTargets(path[Len(path)])} :
                path \in PathsOfLength(k - 1)}

\* No dependency path comes back to one of its packages.
Acyclic == PathsOfLength(Len(graph.packages) + 1) = {}

\* Every package lists a dependency at most once.
ListsOnce ==
  \A p \in DOMAIN graph.resolve :
    \A i, j \in 1..Len(graph.resolve[p]) :
      i # j => graph.resolve[p][i].pkg # graph.resolve[p][j].pkg

DependencyPaths == UNION {PathsOfLength(k) : k \in 1..Len(graph.packages)}

\* The packages on the way from a root down to a Crate node.
PackagePath(n) ==
  LET crates == SelectSeq(Path(n), LAMBDA a : a \in Crates)
  IN [i \in 1..Len(crates) |-> Node(crates[i]).name]

\* C31: for an acyclic input graph in which each package lists a dependency
\* at most once, the node-map lookup is never hit (no call of
\* build_dependency_node finds its key in node_map), and the built arena
\* holds exactly one Crate node per dependency path from a workspace member;
\* in the diamond the shared package c is materialised once under a and once
\* under b.
C31_OneCratePerPath ==
  (pc \in {"build", "loaded"} /\ Acyclic /\ ListsOnce) =>
    /\ CallEnabled =>
         ~\E e \in node_map : e.pkg = CallPkg /\ e.parent = CallParent
    /\ pc = "loaded" =>
         /\ \A m, n \in Crates : PackagePath(m) = PackagePath(n) => m = n
         /\ {PackagePath(n) : n \in Crates} = DependencyPaths
         /\ graph = GDiamond =>
              LET cs == {n \in Crates : Node(n).name = "c"}
              IN /\ Cardinality(cs) = 2
                 /\ {Node(Parent(n)).name : n \in cs} = {"a", "b"}

\* The diamond has been built: five Crate nodes for four packages.
C31_Witness ==
  /\ pc = "loaded"
  /\ graph = GDiamond
  /\ Cardinality(Crates) = 5

(***************************************************************************)
(* Edge classification (core/dependency.rs:290-305)                        *)
(***************************************************************************)
\* The dependency type a kind stands for.
TypeOfKind(k) ==
  IF k = "normal" THEN "Normal" ELSE IF k = "development" THEN "Dev" ELSE "Build"

\* The type of the first recognised kind of an edge ("None": there is none).
FirstRecognised(dep) ==
  IF Recognised(dep)
  THEN LET i == CHOOSE i \in 1..Len(dep.dep_kinds) :
                  /\ dep.dep_kinds[i] \in {"normal", "development", "build"}
                  /\ \A j \in 1..(i - 1) :
                       dep.dep_kinds[j] \notin {"normal", "development", "build"}
       IN TypeOfKind(dep.dep_kinds[i])
  ELSE "None"

\* The packages of the edges of one type, in edge order.
EdgesOfType(deps, type) ==
  LET edges == SelectSeq(deps, LAMBDA d : FirstRecognised(d) = type)
  IN [i \in 1..Len(edges) |-> edges[i].pkg]

\* The Crate nodes at the level below a Crate: its Crate children and the
\* children of its Groups.
LevelBelow(n) ==
  {c \in Crates : Parent(c) = n \/ (Parent(c) \in Groups /\ Parent(Parent(c)) = n)}

\* Where a Crate of the level below n hangs: "Normal" for a direct child,
\* else the kind of its Group.
PlaceOf(c) == IF Parent(c) \in Groups THEN Node(Parent(c)).kind ELSE "Normal"

\* C32: each dependency edge of a package is placed in exactly one bucket,
\* that of the first recognised kind of its kind list (unrecognised kinds are
\* skipped, an edge without a recognised kind is in no bucket); so, each
\* package being listed once, a listed package that a crate depends on
\* appears exactly once at the level below that crate, in the place of the
\* first recognised kind (also when its edge is of Normal and of Dev/Build
\* kind), and a package whose edge has no recognised kind does not appear.
C32_OneBucketPerEdge ==
  /\ \A i \in 1..Len(stack) :
       LET f == stack[i]
           deps == graph.resolve[f.pkg]
       IN /\ f.normal = EdgesOfType(deps, "Normal")
          /\ f.dev = EdgesOfType(deps, "Dev")
          /\ f.build = EdgesOfType(deps, "Build")
          /\ Len(f.normal) + Len(f.dev) + Len(f.build)
               = Cardinality({k \in 1..Len(deps) : Recognised(deps[k])})
  /\ (pc = "loaded" /\ ListsOnce) =>
       \A n \in Crates :
         Node(n).name \in DOMAIN graph.resolve =>
           LET deps == graph.resolve[Node(n).name]
           IN \A k \in 1..Len(deps) :
                LET here == {c \in LevelBelow(n) : Node(c).name = deps[k].pkg}
                IN IF Recognised(deps[k]) /\ deps[k].pkg \in Listed
                   THEN /\ Cardinality(here) = 1
                        /\ \A c \in here : PlaceOf(c) = FirstRecognised(deps[k])
                   ELSE here = {}

\* A tree was built from edges of two recognised kinds, of an unrecognised
\* kind before a recognised one, of an unrecognised kind only and of no kind.
C32_Witness ==
  /\ pc = "loaded"
  /\ graph = GMixed
  /\ \E n \in {m \in Crates : Node(m).name \in DOMAIN graph.resolve} :
       LET deps == graph.resolve[Node(n).name]
       IN \E e \in 1..Len(deps) :
            /\ Len(deps[e].dep_kinds) = 2
            /\ \A j \in 1..2 : deps[e].dep_kinds[j] \in {"normal", "development", "build"}
            /\ \E c \in LevelBelow(n) : Node(c).name = deps[e].pkg

(***************************************************************************)
(* collapse and expand in sequence (widget/state.rs:100-154)               *)
(***************************************************************************)
\* The selected node is visible, has children and is open.
OpenSelected ==
  ValidSelection /\ Children(selected) # <<>> /\ selected \in open

\* C33: collapse applied to an open selected node followed immediately by
\* expand restores exactly the previous open set, selection and visible
\* sequence; collapse removes only the selected node from open, so the open
\* descendants reappear expanded.
C33_CollapseThenExpand ==
  (Loaded /\ OpenSelected) =>
    LET C == collapse(Self)
        R == expand(C)
    IN /\ C.open = open \ {selected}
       /\ C.selected = selected
       /\ R.open = open
       /\ R.selected = selected
       /\ visible_nodes(R).visible_cache = VisibleNow
       /\ R.visible_cache = VisibleNow

\* expand has just reopened a node below which a node with children was
\* open already, as after collapse and expand of that node.
C33_Witness ==
  /\ Loaded
  /\ last_op = "expand"
  /\ last_changed
  /\ OpenSelected
  /\ \E d \in Descendants(selected) \cap open :
       /\ Children(d) # <<>>
       /\ Children(d)[1] \in VisibleIds(VisibleNow)

(***************************************************************************)
(* collapse and expand repeated (widget/state.rs:100-154)                  *)
(***************************************************************************)
\* collapse applied k times.
RECURSIVE CollapseTimes(_, _)
CollapseTimes(W, k) == IF k = 0 THEN W ELSE collapse(CollapseTimes(W, k - 1))

\* expand applied k times.
RECURSIVE ExpandTimes(_, _)
ExpandTimes(W, k) == IF k = 0 THEN W ELSE expand(ExpandTimes(W, k - 1))

\* The node the next call acts on: the selected node, or the first visible
\* node when none is selected.
Acting == ensure_selection(Self).selected

\* The number of ancestors of a node (0 for a root).
Level(n) == Cardinality(Ancestors(n))

\* The least number of collapse calls after which the selected node is a
\* root that is not open, looking at most `most` calls ahead (most + 1 if no
\* such number exists).
CollapsesUntilRest(most) ==
  LET rests == {k \in 0..most :
                  LET W == CollapseTimes(Self, k)
                  IN W.selected \in Ids(roots) /\ W.selected \notin W.open}
  IN IF rests = {} THEN most + 1 ELSE Least(rests)

\* C34: from every reachable state on a non-empty tree, collapse applied
\* repeatedly reaches, after at most 2 * depth(selected) + 1 calls (depth 0
\* for a root), a state whose selected node is a root that is not in open,
\* and every further collapse changes nothing; expand applied repeatedly
\* reaches a selected leaf after finitely many calls (at most two for each
\* node of the arena) and then changes nothing.
C34_RepeatedCollapseExpand ==
  (Loaded /\ roots # <<>>) =>
    /\ LET bound == 2 * Level(Acting) + 1
           W == CollapseTimes(Self, bound)
       IN /\ CollapsesUntilRest(bound) <= bound
          /\ W.selected \in Ids(roots)
          /\ W.selected \notin W.open
          /\ collapse(W) = W
    /\ LET W == ExpandTimes(Self, 2 * Len(nodes))
       IN /\ HasNode(W.selected)
          /\ Children(W.selected) = <<>>
          /\ expand(W) = W

\* collapse was called and left a state that needs all of the
\* 2 * depth + 1 calls: the selected node, below its root, is open.
C34_Witness ==
  /\ Loaded
  /\ last_op = "collapse"
  /\ ValidSelection
  /\ Level(selected) >= 1
  /\ CollapsesUntilRest(2 * Level(selected) + 1) = 2 * Level(selected) + 1

(***************************************************************************)
(* The open set (widget/state.rs expand, open_node, expand_all)            *)
(***************************************************************************)
\* The nodes of the arena that have no child.
Leaves == {n \in NodeIds : Children(n) = <<>>}

\* C35: in every state reachable through the navigation operations, open
\* holds only NodeIds that exist in the arena and have at least one child;
\* expand, open_to_depth and expand_all never insert a leaf, whatever the
\* state they are called in.
C35_OpenHoldsParents ==
  /\ open \subseteq NodeIds \ Leaves
  /\ Loaded =>
       /\ expand(Self).open \subseteq NodeIds \ Leaves
       /\ expand_all(Self).open = NodeIds \ Leaves
       /\ \A d \in 0..MaxDepthArg :
            open_to_depth(Self, d).open \subseteq NodeIds \ Leaves

\* expand was called on a selected leaf of a tree with open nodes, and
\* changed nothing.
C35_Witness ==
  /\ Loaded
  /\ last_op = "expand"
  /\ ~last_changed
  /\ selected \in Leaves
  /\ open # {}

(***************************************************************************)
(* The selected line in the frame (widget/render.rs:46-96, widget.rs)      *)
(***************************************************************************)
\* The 0-based indices of the visible nodes whose lines a frame of height h
\* holds: all its lines at offset 0, its lines after the breadcrumb
\* otherwise.
EmittedNodes(h) ==
  LET offset == render_viewport(Self, h).offset
      count == Len(render_lines(Self, h))
  IN IF offset = 0 THEN 0..(count - 1)
     ELSE (offset + 1)..(offset + count - 1)

\* The frame of height h holds the line of the selected node.
SelectedShown(h) ==
  /\ (SelectedLine - 1) \in EmittedNodes(h)
  /\ \E k \in 1..Len(render_lines(Self, h)) :
       render_lines(Self, h)[k] = LineAt(SelectedLine - 1)

\* C36: for every non-empty visible sequence, every selected position and
\* every viewport height >= 1 the lines returned by render include the line
\* of the selected node: the selected index lies inside the window of node
\* lines emitted (after the breadcrumb has replaced the first line when
\* offset > 0).
C36_SelectedLineShown ==
  (Loaded /\ VisibleNow # <<>>) => \A h \in 1..MaxHeight : SelectedShown(h)

\* From a height of three rows on the frame holds the selected line.
SelectedLineShownFromThreeRows ==
  (Loaded /\ VisibleNow # <<>>) =>
    \A h \in 3..(MaxHeight + 3) : SelectedShown(h)

\* At offset 0 the frame holds the selected line whatever the height.
SelectedLineShownUnscrolled ==
  (Loaded /\ VisibleNow # <<>>) =>
    \A h \in 1..MaxHeight :
      render_viewport(Self, h).offset = 0 => SelectedShown(h)


(***************************************************************************)
(* ops/tree/tui/state.rs: TuiState and handle_key_event, and the loop of   *)
(* run (bin/cargo/commands/tree_tui.rs).  A TuiState is the record of      *)
(* running, show_help, pending_key and tree_widget_state; the tree is the  *)
(* arena built by load.  A key is the name of its KeyCode: "j" is          *)
(* KeyCode::Char('j'), "Esc" is KeyCode::Esc.                              *)
(***************************************************************************)
\* The TuiState at hand.
Tui ==
  [running |-> running, show_help |-> show_help, pending_key |-> pending_key,
   tree_widget_state |-> Self]

\* select_first (called by handle_key_event; its body is not in the
\* sources, the help panel names it "Go to first item"): the selection is
\* validated and moves to the first visible node.
select_first(W) ==
  LET E == ensure_selection(W)
  IN IF ~ensure_selection_ok(W) THEN E
     ELSE [E EXCEPT !.selected = E.visible_cache[1].id]

\* char::to_digit(10) of the digit keys pressed.
DigitKeys == {"1", "2", "3", "9"}
to_digit(n) == CASE n = "1" -> 1 [] n = "2" -> 2 [] n = "3" -> 3 [] n = "9" -> 9

\* The keys pressed: every key of the match of handle_key_event whose
\* widget method is in the sources or is select_first, and one key ("x")
\* that the match does not name.
Keys ==
  {"?", "q", "Esc", "Down", "Up", "Right", "Left", "j", "k", "l", "h",
   "g", "Home", "p", "]", "[", "O", "c", "x"} \cup DigitKeys

\* The help branch of handle_key_event closing the panel and also obeying
\* the quit keys.
close_help_quit(T, key) ==
  IF key \in {"q", "Esc"} THEN [T EXCEPT !.show_help = FALSE, !.running = FALSE]
  ELSE [T EXCEPT !.show_help = FALSE]

\* handle_key_event with the help panel shown: both arms of the match on
\* the key close the panel, and the function returns.
close_help(T, key) == [T EXCEPT !.show_help = FALSE]

\* handle_key_event past the help and pending branches: the match on the
\* key code.
match_key_code(T, key) ==
  LET W == T.tree_widget_state
  IN CASE key = "?" -> [T EXCEPT !.show_help = TRUE]
       [] key \in {"q", "Esc"} -> [T EXCEPT !.running = FALSE]
       [] key \in {"Down", "j"} -> [T EXCEPT !.tree_widget_state = select_next(W)]
       [] key \in {"Up", "k"} -> [T EXCEPT !.tree_widget_state = select_previous(W)]
       [] key \in {"Right", "l"} ->
            [T EXCEPT !.tree_widget_state = widget_state_expand(W)]
       [] key \in {"Left", "h"} ->
            [T EXCEPT !.tree_widget_state = widget_state_collapse(W)]
       [] key = "g" -> [T EXCEPT !.pending_key = "G"]
       [] key = "Home" -> [T EXCEPT !.tree_widget_state = select_first(W)]
       [] key = "p" -> [T EXCEPT !.tree_widget_state = select_parent(W)]
       [] key = "]" ->
            [T EXCEPT !.tree_widget_state = widget_state_select_next_sibling(W)]
       [] key = "[" ->
            [T EXCEPT !.tree_widget_state = widget_state_select_previous_sibling(W)]
       [] key = "O" -> [T EXCEPT !.tree_widget_state = expand_all(W)]
       [] key = "c" -> [T EXCEPT !.tree_widget_state = collapse_all(W)]
       [] key \in DigitKeys ->
            [T EXCEPT !.tree_widget_state = open_to_depth(W, to_digit(key))]
       [] OTHER -> T

\* handle_key_event leaving a pending 'g' in place when another key
\* follows it.
handle_key_event_pending_kept(T, key) ==
  IF T.show_help THEN close_help(T, key)
  ELSE IF T.pending_key = "G" /\ key = "g"
       THEN [T EXCEPT !.pending_key = "None",
                      !.tree_widget_state = select_first(@)]
       ELSE match_key_code(T, key)

\* handle_key_event
handle_key_event(T, key) ==
  IF T.show_help THEN close_help(T, key)
  ELSE IF T.pending_key = "G"
       THEN LET P == [T EXCEPT !.pending_key = "None"]
            IN IF key = "g"
               THEN [P EXCEPT !.tree_widget_state = select_first(@)]
               ELSE match_key_code(P, key)
       ELSE match_key_code(T, key)

\* The TuiState becomes T.
SetTui(T) ==
  /\ running' = T.running
  /\ show_help' = T.show_help
  /\ pending_key' = T.pending_key
  /\ open' = T.tree_widget_state.open
  /\ selected' = T.tree_widget_state.selected
  /\ visible_cache' = T.tree_widget_state.visible_cache
  /\ dirty' = T.tree_widget_state.dirty
  /\ viewport_height' = T.tree_widget_state.viewport_height
  /\ search_query' = T.tree_widget_state.search_query
  /\ search_matches' = T.tree_widget_state.search_matches
  /\ last_changed' = (T.tree_widget_state # Self)
  /\ last_selection' = SelectionOf(Self)

\* while state.running entering the body whatever running holds.
LoopEnter_always ==
  /\ terminal = "initialised"
  /\ loop \in {"start", "test"}
  /\ loop' = "draw"
  /\ iter_draws' = 0
  /\ iter_keys' = 0
  /\ UNCHANGED <<running, show_help, pending_key, last_key>>
  /\ UNCHANGED <<build_vars, widget_vars, viewport_vars, crumb_vars, terminal>>

\* while state.running: the condition holds and the body is entered.
LoopEnter ==
  /\ terminal = "initialised"
  /\ loop \in {"start", "test"}
  /\ running
  /\ loop' = "draw"
  /\ iter_draws' = 0
  /\ iter_keys' = 0
  /\ UNCHANGED <<running, show_help, pending_key, last_key>>
  /\ UNCHANGED <<build_vars, widget_vars, viewport_vars, crumb_vars, terminal>>

\* while state.running: the condition fails; ratatui::restore() and Ok(()).
LoopExit ==
  /\ terminal = "initialised"
  /\ loop \in {"start", "test"}
  /\ ~running
  /\ loop' = "done"
  /\ terminal' = "restored"
  /\ UNCHANGED <<running, show_help, pending_key, last_key, iter_draws, iter_keys>>
  /\ UNCHANGED <<build_vars, widget_vars, viewport_vars, crumb_vars>>

\* terminal.draw(|frame| draw_tui(frame, &mut state)): the tree widget is
\* rendered into an area of some inner height; the help bar and the help
\* panel change nothing of the state.
Draw ==
  /\ loop = "draw"
  /\ \E h \in 0..MaxHeight :
       SetTui([Tui EXCEPT !.tree_widget_state = render(Self, h)])
  /\ last_op' = "render"
  /\ loop' = "read"
  /\ iter_draws' = iter_draws + 1
  /\ UNCHANGED <<last_key, iter_keys>>
  /\ UNCHANGED <<build_vars, viewport_vars, crumb_vars, terminal>>

\* event::read() returns a key event: state.handle_key_event(key_event).
ReadKey ==
  /\ loop = "read"
  /\ \E key \in Keys :
       /\ SetTui(handle_key_event(Tui, key))
       /\ last_key' = [code |-> key, show_help |-> show_help,
                       pending_key |-> pending_key]
  /\ last_op' = "handle_key_event"
  /\ loop' = "test"
  /\ iter_keys' = iter_keys + 1
  /\ UNCHANGED iter_draws
  /\ UNCHANGED <<build_vars, viewport_vars, crumb_vars, terminal>>

\* event::read() returns an event that is not a key (mouse, resize, focus,
\* paste): the if let does not match.
ReadOther ==
  /\ loop = "read"
  /\ loop' = "test"
  /\ UNCHANGED <<running, show_help, pending_key, last_key, iter_draws, iter_keys>>
  /\ UNCHANGED <<build_vars, widget_vars, viewport_vars, crumb_vars, terminal>>

\* terminal.draw(..)? or event::read()? returns Err: run returns it.
IoError ==
  /\ loop \in {"draw", "read"}
  /\ loop' = "failed"
  /\ UNCHANGED <<running, show_help, pending_key, last_key, iter_draws, iter_keys>>
  /\ UNCHANGED <<build_vars, widget_vars, viewport_vars, crumb_vars, terminal>>

NextTui ==
  \/ BuildNext
  \/ StartTui
  \/ LoopEnter
  \/ LoopExit
  \/ Draw
  \/ ReadKey
  \/ ReadOther
  \/ IoError

\* run is started on a tree with groups, on one whose snapshot repeats an
\* edge, on one with edges the builder skips, on the empty and the cyclic
\* workspace, and on the provider's failures.
TuiSnapshots == {GBasic, GRepeated, GDefensive, GEmpty, GCycle}

InitTui ==
  /\ Init
  /\ graph \in TuiSnapshots \cup Failures

SpecTui == InitTui /\ [][NextTui]_vars

TuiTypeOK ==
  /\ running \in BOOLEAN
  /\ show_help \in BOOLEAN
  /\ pending_key \in {"None", "G"}
  /\ loop \in {"start", "draw", "read", "test", "done", "failed"}


(***************************************************************************)
(* Claims about TuiState::handle_key_event and the loop of run.            *)
(***************************************************************************)
\* A key was handled in the pass of the loop body that just ended.
KeyJustHandled == loop = "test" /\ iter_keys = 1

\* The flags a 'g' meets when it sets the pending state.
SettingG == [code |-> "g", show_help |-> FALSE, pending_key |-> "None"]

\* C37: a 'g' goes to the first item only when a 'g' is pending and help is
\* closed, and a 'g' is pending only when the last key handled was a 'g'
\* met with help closed and nothing pending; whatever key comes next, the
\* pending state is gone after it; with help closed and nothing pending,
\* 'g' followed by another key k leaves the TuiState that k alone leaves;
\* help is never shown while a 'g' is pending.
C37_PendingG ==
  /\ pending_key = "G" => last_key = SettingG
  /\ ~(show_help /\ pending_key = "G")
  /\ handle_key_event(Tui, "g").tree_widget_state =
       IF pending_key = "G" /\ ~show_help THEN select_first(Self) ELSE Self
  /\ pending_key = "G" =>
       \A k \in Keys : handle_key_event(Tui, k).pending_key = "None"
  /\ ~show_help /\ pending_key = "None" =>
       \A k \in Keys \ {"g"} :
         handle_key_event(handle_key_event(Tui, "g"), k) = handle_key_event(Tui, k)
  /\ KeyJustHandled /\ last_key.pending_key = "G" =>
       /\ pending_key = "None"
       /\ last_key.code = "g" => selected = select_first(Self).selected
  /\ KeyJustHandled /\ last_changed /\ last_key.code = "g" =>
       last_key.pending_key = "G" /\ ~last_key.show_help

\* The second 'g' of "gg" moved the selection to the first item.
C37_Witness ==
  /\ KeyJustHandled
  /\ last_key = [code |-> "g", show_help |-> FALSE, pending_key |-> "G"]
  /\ last_changed
  /\ last_selection = "visible"
  /\ Len(visible_cache) > 1
  /\ selected = visible_cache[1].id

OneFrameThenOneEvent ==
  /\ loop = "start" => iter_draws = 0 /\ iter_keys = 0
  /\ loop = "draw" => iter_draws = 0 /\ iter_keys = 0
  /\ loop = "read" => iter_draws = 1 /\ iter_keys = 0
  /\ loop = "test" => iter_draws = 1 /\ iter_keys \in {0, 1}
  /\ loop = "failed" => iter_draws \in {0, 1} /\ iter_keys = 0

\* C39: q or Esc with help closed clears running; no key sets running
\* again; once running is false the loop is at its test or has returned,
\* with the frame and the key of the pass that cleared it as the last ones;
\* a pass of the loop body draws one frame and then handles at most one key.
C39_QuitEndsLoop ==
  /\ ~show_help =>
       \A k \in {"q", "Esc"} : ~handle_key_event(Tui, k).running
  /\ ~running => \A k \in Keys : ~handle_key_event(Tui, k).running
  /\ ~running =>
       /\ loop \in {"test", "done"}
       /\ iter_draws = 1 /\ iter_keys = 1
       /\ last_key.code \in {"q", "Esc"}
       /\ ~last_key.show_help
  /\ loop = "done" => ~running /\ terminal = "restored"
  /\ OneFrameThenOneEvent

\* Esc was pressed while a 'g' was pending and run has returned.
C39_Witness ==
  /\ loop = "done"
  /\ ~running
  /\ last_key = [code |-> "Esc", show_help |-> FALSE, pending_key |-> "G"]
  /\ terminal = "restored"

\* running never goes from false to true.
RunningStaysFalse == [][~running => ~running']_vars

\* After running is cleared no frame is drawn and no event is read.
NoFrameAfterQuit == [][~running => loop' \notin {"draw", "read"}]_vars

====
